---- MODULE Spec2Model ----
(***************************************************************************)
(* Rules-engine worker of the security system: the MQTT handlers that      *)
(* queue detection and motion events, the interval-driven processing loop, *)
(* and RuleEngine (processEvent, evaluateRule, the condition evaluators,   *)
(* triggerRule, executeAction, addToRecentEvents, loadRules/reloadRules).  *)
(*                                                                         *)
(* Time is counted in whole minutes.  Strings that the code compares       *)
(* character by character ("HH:mm" times, time ranges) are sequences of    *)
(* character codes; confidences are whole percents.  A step of the model   *)
(* is one run of JavaScript from the completion of a real I/O operation    *)
(* (SQLite query, MQTT message, timer) to the next await of one.           *)
(***************************************************************************)
EXTENDS Integers, Sequences, FiniteSets, TLC

\* ------------------------------------------------------------------ bounds
MaxEvents == 2        \* event messages delivered in one behaviour
MaxTime == 3          \* minutes that pass in one behaviour
MaxInFlight == 2      \* interval callbacks that may be suspended at once
MaxUpdates == 1       \* rewrites of the rules table in one behaviour
MaxReloadEvents == 1  \* event messages delivered in the reload specification
MaxHistEvents == 102  \* events of the first camera in the history specification
MaxHistSide == 2      \* events of the second camera in the history specification
MaxHistQueue == 2     \* queued events in the history specification
MaxActionEvents == 2  \* events delivered in the action-failure specification
MaxSamples == 3       \* training samples stored for one model

\* ------------------------------------------------------- program constants
batchSize == 10
HistoryCapacity == 100
RecentMinutes == 60
MotionConfidence == 80

\* ---------------------------------------------------------------- strings
\* A string is the sequence of its character codes.
Colon == 58
Dash == 45
Digit(d) == 48 + d

\* "HH:mm" of an hour and a minute, zero padded.
HHmm(h, m) == << Digit(h \div 10), Digit(h % 10), Colon, Digit(m \div 10), Digit(m % 10) >>

\* a < b, a = b or a > b as JavaScript compares strings: by code unit, a
\* proper prefix being smaller.
RECURSIVE StrLess(_, _)
StrLess(a, b) ==
  IF b = << >> THEN FALSE
  ELSE IF a = << >> THEN TRUE
  ELSE IF Head(a) # Head(b) THEN Head(a) < Head(b)
  ELSE StrLess(Tail(a), Tail(b))

\* Variant of <= that is strict.
StrLeqStrict(a, b) == StrLess(a, b)

StrLeq(a, b) == a = b \/ StrLess(a, b)

Includes(s, c) == \E i \in 1..Len(s) : s[i] = c

\* String.prototype.split(sep) for a one-character separator.
RECURSIVE Split(_, _)
Split(s, sep) ==
  IF ~Includes(s, sep) THEN << s >>
  ELSE LET i == CHOOSE k \in 1..Len(s) : s[k] = sep /\ \A j \in 1..(k - 1) : s[j] # sep
       IN  << SubSeq(s, 1, i - 1) >> \o Split(SubSeq(s, i + 1, Len(s)), sep)

\* ------------------------------------------------------------ absent values
NoNumber == -1      \* undefined where the code expects a number
NoString == ""      \* undefined where the code expects a string
InvalidDate == -1   \* a timestamp new Date() cannot parse
Never == -1         \* no entry in lastTriggered

Falsy(n) == n = NoNumber \/ n = 0

\* ------------------------------------------------------------- data shapes
\* A RuleCondition with every optional field absent.
Condition(type, operator) ==
  [ type |-> type, operator |-> operator, detectionType |-> NoString,
    detectionTypes |-> << >>, zone |-> NoString, timeRange |-> << >>,
    frequencyThreshold |-> NoNumber, frequencyTimeWindow |-> NoNumber,
    confidenceThreshold |-> NoNumber, severity |-> NoString,
    customDetection |-> NoString ]

Action(type) == [ type |-> type ]

KnownActionTypes == { "notification", "siren", "light", "webhook", "record", "custom" }

RECURSIVE Sum(_)
Sum(s) == IF s = << >> THEN 0 ELSE Head(s) + Sum(Tail(s))

SeqIncludes(s, x) == \E i \in 1..Len(s) : s[i] = x

\* ------------------------------------------------------ condition evaluators
evaluateDetectionCondition(condition, event) ==
  IF condition.detectionType = NoString THEN FALSE
  ELSE IF condition.operator = "equals" THEN event.detectionType = condition.detectionType
  ELSE IF condition.operator = "not_equals" THEN event.detectionType # condition.detectionType
  ELSE IF condition.operator = "in" THEN SeqIncludes(condition.detectionTypes, event.detectionType)
  ELSE FALSE

evaluateZoneCondition(condition, event) ==
  IF condition.zone = NoString THEN FALSE
  ELSE IF condition.operator = "in" THEN SeqIncludes(event.zones, condition.zone)
  ELSE IF condition.operator = "not_in" THEN ~SeqIncludes(event.zones, condition.zone)
  ELSE FALSE

\* date-fns format(timestamp, 'HH:mm') of a valid date.
formatHHmm(timestamp) == HHmm((timestamp \div 60) % 24, timestamp % 60)

\* format() throws RangeError for an invalid date.
TimeConditionThrows(condition, timestamp) ==
  condition.timeRange # << >> /\ timestamp = InvalidDate

evaluateTimeCondition(condition, timestamp) ==
  IF condition.timeRange = << >> THEN FALSE
  ELSE LET currentTime == formatHHmm(timestamp)
           parts == Split(condition.timeRange, Dash)
       IN  IF Includes(condition.timeRange, Dash)
           THEN StrLeq(parts[1], currentTime) /\ StrLeq(currentTime, parts[2])
           ELSE currentTime = condition.timeRange

evaluateFrequencyCondition(condition, recent, now) ==
  IF Falsy(condition.frequencyThreshold) \/ Falsy(condition.frequencyTimeWindow) THEN FALSE
  ELSE LET cutoffTime == now - condition.frequencyTimeWindow
           relevant == { i \in 1..Len(recent) :
                           recent[i].timestamp # InvalidDate /\ recent[i].timestamp >= cutoffTime }
       IN  IF condition.detectionType # NoString
           THEN Cardinality({ i \in relevant : recent[i].detectionType = condition.detectionType })
                  >= condition.frequencyThreshold
           ELSE Cardinality(relevant) >= condition.frequencyThreshold

evaluateConfidenceCondition(condition, event) ==
  IF Falsy(condition.confidenceThreshold) THEN FALSE
  ELSE IF condition.operator = "greater_than" THEN event.confidence > condition.confidenceThreshold
  ELSE IF condition.operator = "greater_than_or_equal" THEN event.confidence >= condition.confidenceThreshold
  ELSE IF condition.operator = "less_than" THEN event.confidence < condition.confidenceThreshold
  ELSE IF condition.operator = "less_than_or_equal" THEN event.confidence <= condition.confidenceThreshold
  ELSE FALSE

\* Variant of the table with a fourth level above high.
severityOrderFour(s) ==
  CASE s = "low" -> 1 [] s = "medium" -> 2 [] s = "high" -> 3 [] s = "critical" -> 4
    [] OTHER -> NoNumber

\* severityOrder[s]; a severity outside the table reads undefined, and every
\* comparison with undefined is false.
severityOrder(s) ==
  CASE s = "low" -> 1 [] s = "medium" -> 2 [] s = "high" -> 3 [] OTHER -> NoNumber

evaluateSeverityCondition(condition, event) ==
  IF condition.severity = NoString THEN FALSE
  ELSE IF condition.operator = "equals" THEN event.severity = condition.severity
  ELSE IF condition.operator = "greater_than_or_equal"
       THEN /\ severityOrder(event.severity) # NoNumber
            /\ severityOrder(condition.severity) # NoNumber
            /\ severityOrder(event.severity) >= severityOrder(condition.severity)
  ELSE FALSE

evaluateCustomCondition(condition, event) ==
  IF condition.customDetection = NoString THEN FALSE
  ELSE SeqIncludes(event.customDetections, condition.customDetection)

\* zone name -> number of the events that lie in the zone
calculateZoneHistory(events) ==
  LET zones == UNION { { events[i].zones[k] : k \in 1..Len(events[i].zones) } :
                        i \in 1..Len(events) }
  IN  [ zone \in zones |->
          Sum([ i \in 1..Len(events) |->
                  Cardinality({ k \in 1..Len(events[i].zones) : events[i].zones[k] = zone }) ]) ]

\* The EventContext of buildEventContext.
EventContext(event, recent) ==
  [ event |-> event, cameraId |-> event.cameraId, timestamp |-> event.timestamp,
    recentEvents |-> recent, zoneHistory |-> calculateZoneHistory(recent) ]

evaluateConditionThrows(condition, context) ==
  condition.type = "time" /\ TimeConditionThrows(condition, context.timestamp)

\* Variant of evaluateCondition whose default branch returns true.
evaluateConditionLenient(condition, context, now) ==
  CASE condition.type = "detection" -> evaluateDetectionCondition(condition, context.event)
    [] condition.type = "zone" -> evaluateZoneCondition(condition, context.event)
    [] condition.type = "time" -> evaluateTimeCondition(condition, context.timestamp)
    [] condition.type = "frequency" -> evaluateFrequencyCondition(condition, context.recentEvents, now)
    [] condition.type = "confidence" -> evaluateConfidenceCondition(condition, context.event)
    [] condition.type = "severity" -> evaluateSeverityCondition(condition, context.event)
    [] condition.type = "custom" -> evaluateCustomCondition(condition, context.event)
    [] OTHER -> TRUE

evaluateCondition(condition, context, now) ==
  CASE condition.type = "detection" -> evaluateDetectionCondition(condition, context.event)
    [] condition.type = "zone" -> evaluateZoneCondition(condition, context.event)
    [] condition.type = "time" -> evaluateTimeCondition(condition, context.timestamp)
    [] condition.type = "frequency" -> evaluateFrequencyCondition(condition, context.recentEvents, now)
    [] condition.type = "confidence" -> evaluateConfidenceCondition(condition, context.event)
    [] condition.type = "severity" -> evaluateSeverityCondition(condition, context.event)
    [] condition.type = "custom" -> evaluateCustomCondition(condition, context.event)
    [] OTHER -> FALSE

\* ----------------------------------------------------------- evaluateRule
\* addMinutes(lastTriggered, cooldownMinutes) and isAfter(new Date(), cooldownEnd).
cooldownEnd(last, rule) == last + rule.cooldownMinutes

CooldownSkips(rule, last, now) ==
  /\ last # Never
  /\ rule.cooldownMinutes > 0
  /\ now > cooldownEnd(last, rule)

\* Index of the first condition whose evaluation throws, 0 when none does.
FirstThrow(rule, context) ==
  LET bad == { i \in 1..Len(rule.conditions) : evaluateConditionThrows(rule.conditions[i], context) }
  IN  IF bad = {} THEN 0 ELSE CHOOSE i \in bad : \A j \in bad : i <= j

ConditionsMet(rule, context, now) ==
  [ i \in 1..Len(rule.conditions) |-> evaluateCondition(rule.conditions[i], context, now) ]

\* Variants of the trigger decision, used to test how sharp the properties are:
\* one true condition suffices; the length check is dropped.
TriggeredAny(conditionsMet) ==
  \E i \in 1..Len(conditionsMet) : conditionsMet[i]

TriggeredUnguarded(conditionsMet) ==
  \A i \in 1..Len(conditionsMet) : conditionsMet[i]

Triggered(conditionsMet) ==
  (\A i \in 1..Len(conditionsMet) : conditionsMet[i]) /\ Len(conditionsMet) > 0

\* The RuleEvaluation returned, or outcome "throw" when a condition raised.
evaluateRule(rule, context, last, now) ==
  IF CooldownSkips(rule, last, now)
  THEN [ outcome |-> "cooldown", triggered |-> FALSE, conditionsMet |-> << FALSE >> ]
  ELSE IF FirstThrow(rule, context) # 0
  THEN [ outcome |-> "throw", triggered |-> FALSE, conditionsMet |-> << >> ]
  ELSE LET met == ConditionsMet(rule, context, now)
       IN  [ outcome |-> "evaluated", triggered |-> Triggered(met), conditionsMet |-> met ]

\* ------------------------------------------------------------ EmbeddingModel
\* Numbers are fixed point: the integer n stands for n / Unit.  An embedding
\* is a sequence of coordinates in fifths, so << 3, 4 >> is (0.6, 0.8).
\* Unit makes every quotient computed below for the embeddings in use exact.
Unit == 1287000
CoordinateUnit == 5

\* The value NaN, which no comparison and no arithmetic below is applied to.
NaN == 2147483647

\* Math.sqrt of a perfect square.
Sqrt(n) == CHOOSE r \in 0..n : r * r = n

RECURSIVE Dot(_, _)
Dot(a, b) == IF a = << >> THEN 0 ELSE Head(a) * Head(b) + Dot(Tail(a), Tail(b))

Diff(a, b) == [ i \in 1..Len(a) |-> a[i] - b[i] ]

\* Both functions throw for embeddings of different length.
DimensionMismatch(embedding1, embedding2) == Len(embedding1) # Len(embedding2)

\* The value Infinity of a double, and two values standing for finite
\* doubles beyond the fixed-point range: the coordinate Huge, whose square
\* exceeds Number.MAX_VALUE (1e200, say), and Large, a sum in which a Huge
\* coordinate is multiplied by an ordinary non-zero one.
Infinity == 2147483646
Huge == 2147483645
Large == 2147483644

\* What the loop of cosineSimilarity accumulates in one of its three sums:
\* Infinity once a product of two Huge coordinates is added.
Accumulate(a, b) ==
  IF \E i \in 1..Len(a) : a[i] = Huge /\ b[i] = Huge THEN Infinity
  ELSE IF \E i \in 1..Len(a) : (a[i] = Huge /\ b[i] # 0) \/ (b[i] = Huge /\ a[i] # 0)
  THEN Large
  ELSE Dot(a, b)

MathSqrt(x) == IF x = Infinity THEN Infinity ELSE Sqrt(x)

\* Math.sqrt(norm1) * Math.sqrt(norm2): Infinity * 0 is NaN.
Norms(root1, root2) ==
  IF root1 = Infinity \/ root2 = Infinity
  THEN IF root1 = 0 \/ root2 = 0 THEN NaN ELSE Infinity
  ELSE root1 * root2

\* dotProduct / (Math.sqrt(norm1) * Math.sqrt(norm2) || 1)
cosineSimilarity(embedding1, embedding2) ==
  LET dotProduct == Accumulate(embedding1, embedding2)
      norms == Norms(MathSqrt(Accumulate(embedding1, embedding1)),
                     MathSqrt(Accumulate(embedding2, embedding2)))
      denominator == IF norms = 0 \/ norms = NaN
                     THEN CoordinateUnit * CoordinateUnit ELSE norms
  IN  IF dotProduct = Infinity
      THEN IF denominator = Infinity THEN NaN ELSE Infinity
      ELSE IF denominator = Infinity THEN 0
      ELSE IF dotProduct = Large THEN Large
      ELSE (dotProduct * Unit) \div denominator

euclideanDistance(embedding1, embedding2) ==
  LET diff == Diff(embedding1, embedding2)
  IN  (Sqrt(Dot(diff, diff)) * Unit) \div CoordinateUnit

\* ------------------------------------------------------------ KNNClassifier
DefaultK == 5
DefaultSimilarityThreshold == (7 * Unit) \div 10

\* An absent option (undefined).
NoOption == -2147483647

\* options.k || this.k and options.similarityThreshold || this.similarityThreshold
OrDefault(option, default) == IF option = NoOption \/ option = 0 THEN default ELSE option

\* 1 / (1 + distance), the distance being a multiple of 1 / CoordinateUnit.
InverseOfOnePlus(distance) ==
  (CoordinateUnit * Unit) \div ((Unit + distance) \div (Unit \div CoordinateUnit))

\* The entry classify computes for a sample.
Distance(queryEmbedding, sample, useDistance) ==
  LET distance == IF useDistance
                  THEN euclideanDistance(queryEmbedding, sample.embedding)
                  ELSE Unit - cosineSimilarity(queryEmbedding, sample.embedding)
  IN  [ label |-> sample.label, distance |-> distance,
        similarity |-> IF useDistance THEN InverseOfOnePlus(distance) ELSE Unit - distance ]

\* The orders distances.sort((a, b) => a.distance - b.distance) can leave
\* the entries in, as sequences of their indexes: the sort is stable, so
\* entries of equal distance keep their order and there is one outcome.
IndexOrders(n) ==
  { p \in [ 1..n -> 1..n ] : \A i, j \in 1..n : i # j => p[i] # p[j] }

sortUnstable(distances) ==
  { p \in IndexOrders(Len(distances)) :
      \A i, j \in 1..Len(distances) :
        i < j => distances[p[i]].distance <= distances[p[j]].distance }

sort(distances) ==
  { p \in IndexOrders(Len(distances)) :
      \A i, j \in 1..Len(distances) :
        i < j => \/ distances[p[i]].distance < distances[p[j]].distance
                 \/ /\ distances[p[i]].distance = distances[p[j]].distance
                    /\ p[i] < p[j] }

\* Array.prototype.slice(0, end): a negative end counts from the end.
slice(s, end) ==
  LET last == IF end < 0 THEN Len(s) + end ELSE end
  IN  IF last <= 0 THEN << >> ELSE SubSeq(s, 1, IF last > Len(s) THEN Len(s) ELSE last)

\* The keys of labelVotes in insertion order: the neighbors' labels, each at
\* its first occurrence.
RECURSIVE labelOrder(_)
labelOrder(neighbors) ==
  IF neighbors = << >> THEN << >>
  ELSE LET rest == labelOrder(SubSeq(neighbors, 1, Len(neighbors) - 1))
           label == neighbors[Len(neighbors)].label
       IN  IF \E i \in 1..Len(rest) : rest[i] = label THEN rest ELSE Append(rest, label)

\* labelVotes.get(label)
labelVotes(neighbors, label) ==
  LET IsLabel(n) == n.label = label
      mine == SelectSeq(neighbors, IsLabel)
  IN  [ count |-> Len(mine),
        totalSimilarity |-> Sum([ i \in 1..Len(mine) |-> mine[i].similarity ]) ]

\* data.count * (data.totalSimilarity / data.count)
score(data) == data.count * (data.totalSimilarity \div data.count)

\* labelVotes.forEach over the first n keys: the best label so far.
RECURSIVE bestVote(_, _, _)
bestVote(neighbors, labels, n) ==
  IF n = 0 THEN [ bestLabel |-> "", bestScore |-> -Unit, totalVotes |-> 0 ]
  ELSE LET best == bestVote(neighbors, labels, n - 1)
           data == labelVotes(neighbors, labels[n])
       IN  IF score(data) > best.bestScore
           THEN [ bestLabel |-> labels[n], bestScore |-> score(data), totalVotes |-> data.count ]
           ELSE best

\* Math.min(avgSimilarity * (totalVotes / k), 1.0), avgSimilarity being the
\* winning label's summed similarity over totalVotes (0 / 0 is NaN).
confidence(neighbors, best, k) ==
  IF best.totalVotes = 0 THEN NaN
  ELSE LET avgSimilarity == labelVotes(neighbors, best.bestLabel).totalSimilarity
                              \div best.totalVotes
           product == avgSimilarity * best.totalVotes
           value == IF k > 0 THEN product \div k ELSE -(product \div (-k))
       IN  IF value < Unit THEN value ELSE Unit

\* classify from its sorted entries on: the value returned, null, or the
\* TypeError of reading bestMatch.similarity when there is no neighbor.
classifySorted(sorted, k, threshold) ==
  LET neighbors == slice(sorted, k)
  IN  IF neighbors = << >> THEN [ outcome |-> "throw" ]
      ELSE IF neighbors[1].similarity < threshold THEN [ outcome |-> "null" ]
      ELSE LET best == bestVote(neighbors, labelOrder(neighbors), Len(labelOrder(neighbors)))
           IN  [ outcome |-> "result",
                 label |-> best.bestLabel,
                 confidence |-> confidence(neighbors, best, k),
                 distance |-> neighbors[1].distance,
                 neighbors |-> [ i \in 1..Len(neighbors) |->
                                   [ label |-> neighbors[i].label,
                                     distance |-> neighbors[i].distance,
                                     confidence |-> neighbors[i].similarity ] ] ]

\* ------------------------------------------------------------------ state
VARIABLES
  isRunning,          \* RulesEngineWorker.isRunning
  subscribed,         \* the MQTT subscriptions of start() are in place
  processingInterval, \* the setInterval of startProcessingLoop is set
  eventQueue,         \* RulesEngineWorker.eventQueue (the queued items' events)
  rules,              \* RuleEngine.rules, the Map's entries in insertion order
  lastTriggered,      \* RuleEngine.lastTriggered
  recentEvents,       \* RuleEngine.recentEvents
  tasks,              \* interval callbacks suspended at an await of real I/O
  loading,            \* loadRules calls awaiting their query
  dbRules,            \* rows of SELECT * FROM rules WHERE enabled = 1
  lastLoad,           \* how the latest settled loadRules query ended
  now,                \* the wall clock, new Date()
  delivered,          \* messages delivered so far, per camera
  updates,            \* config/rules/update messages delivered so far
  triggerLog,         \* every call of triggerRule, in order
  actionFeed,         \* every publisher.publishAction call, in order
  finished,           \* every processEvent call that has returned
  appended,           \* every event addToRecentEvents was called with, per camera
  knn,                \* KNNClassifier.k and KNNClassifier.similarityThreshold
  sampleStore,        \* rows of custom_model_samples per model, ordered by created_at
  classifying,        \* classify calls awaiting their embedding and samples
  returned,           \* the classify or clearTrainingData call settled by the last step, if any
  detectionFeed,      \* every publisher.publishDetectionEvent call of the inference processor, in order
  motionFeed,         \* every publisher.publishMotionEvent call of the inference processor, in order
  inferenceRunning,   \* InferenceWorker.isRunning
  frameQueue,         \* InferenceWorker.frameQueue: the queued frames of each camera
  frameKeys,          \* the keys of the frameQueue Map, in insertion order
  framePasses,        \* processQueuedFrames calls awaiting processor.processFrame
  framesReceived,     \* frame messages handled so far, per camera
  frameHanded,        \* every processor.processFrame call of the worker, in order
  streamState,        \* a CameraStream: not created, in CameraManager.cameras, or deleted from it
  ffmpeg,             \* CameraStream.ffmpeg is not null
  ffmpegAlive,        \* ffmpeg processes of the stream that have not closed
  reconnectTimers,    \* setTimeout calls of the close handler that have not fired
  reconnectAttempts,  \* CameraStream.reconnectAttempts
  healthStatus,       \* CameraStream.healthStatus.status
  frameCount,         \* CameraStream.frameCount
  reconnectRun,       \* reconnects started since the last frame was received
  actionsRunning,     \* ActionsServiceWorker.isRunning
  actionQueue,        \* ActionsServiceWorker.actionQueue
  executing,          \* executeAction calls that have not returned
  requested,          \* action requests queued so far
  actionResults,      \* every ActionResult returned by executeAction, in order
  executionLog,       \* every storeActionExecution call, in order
  resultLog           \* every publisher.publishActionResult call, in order

vars == << isRunning, subscribed, processingInterval, eventQueue, rules, lastTriggered,
           recentEvents, tasks, loading, dbRules, lastLoad, now, delivered, updates,
           triggerLog, actionFeed, finished, appended,
           knn, sampleStore, classifying, returned,
           detectionFeed, motionFeed,
           inferenceRunning, frameQueue, frameKeys, framePasses, framesReceived, frameHanded,
           streamState, ffmpeg, ffmpegAlive, reconnectTimers, reconnectAttempts, healthStatus,
           frameCount, reconnectRun,
           actionsRunning, actionQueue, executing, requested, actionResults, executionLog,
           resultLog >>

engineVars == << isRunning, subscribed, processingInterval, eventQueue, rules, lastTriggered,
                 recentEvents, tasks, loading, dbRules, lastLoad, now, delivered, updates,
                 triggerLog, actionFeed, finished, appended >>

knnVars == << knn, sampleStore, classifying, returned >>

feedVars == << detectionFeed, motionFeed >>

frameVars == << inferenceRunning, frameQueue, frameKeys, framePasses, framesReceived,
                frameHanded >>

cameraVars == << streamState, ffmpeg, ffmpegAlive, reconnectTimers, reconnectAttempts,
                 healthStatus, frameCount, reconnectRun >>

executorVars == << actionsRunning, actionQueue, executing, requested, actionResults,
                   executionLog, resultLog >>

workerVars == << feedVars, frameVars, cameraVars, executorVars >>

\* ----------------------------------------------------------------- inputs
Cameras == { "cam1", "cam2" }

RuleIds == { "r1", "r2", "r3", "r4" }

\* "08:00-17:00"
OfficeHours == HHmm(8, 0) \o << Dash >> \o HHmm(17, 0)

Noon == 12 * 60
LateEvening == 23 * 60 + 30

RuleA1 ==
  [ id |-> "r1", enabled |-> TRUE, cooldownMinutes |-> 2,
    conditions |-> << [ Condition("confidence", "greater_than_or_equal")
                          EXCEPT !.confidenceThreshold = 80 ] >>,
    actions |-> << Action("notification"), Action("email"), Action("siren") >> ]

RuleA2 ==
  [ id |-> "r2", enabled |-> TRUE, cooldownMinutes |-> 0,
    conditions |-> << [ Condition("detection", "equals") EXCEPT !.detectionType = "vehicle" ],
                      [ Condition("time", "") EXCEPT !.timeRange = OfficeHours ] >>,
    actions |-> << Action("webhook") >> ]

RuleA3 ==
  [ id |-> "r3", enabled |-> TRUE, cooldownMinutes |-> 0,
    conditions |-> << >>,
    actions |-> << Action("notification") >> ]

RuleA4 ==
  [ id |-> "r4", enabled |-> TRUE, cooldownMinutes |-> 0,
    conditions |-> << [ Condition("severity", "equals") EXCEPT !.severity = "low" ] >>,
    actions |-> << Action("light") >> ]

RuleB1 ==
  [ id |-> "r1", enabled |-> TRUE, cooldownMinutes |-> 0,
    conditions |-> << [ Condition("severity", "greater_than_or_equal") EXCEPT !.severity = "medium" ] >>,
    actions |-> << Action("record") >> ]

\* Contents of the rules table the behaviours range over.
RuleSetA == << RuleA2, RuleA1, RuleA3, RuleA4 >>
RuleSetB == << RuleB1 >>
RuleSets == { RuleSetA, RuleSetB }

\* Detection payloads published on detection/{cameraId}.
DetectionPayloads ==
  { [ timestamp |-> Noon, detectionType |-> "person", confidence |-> 90,
      zones |-> << "driveway" >>, severity |-> "high", customDetections |-> << >> ],
    [ timestamp |-> InvalidDate, detectionType |-> "person", confidence |-> 50,
      zones |-> << >>, severity |-> "low", customDetections |-> << >> ] }

\* Motion payloads published on motion/{cameraId}: timestamp and severity.
MotionPayloads ==
  { [ timestamp |-> LateEvening, severity |-> NoString ] }

\* Results of the detections query of getRecentEvents.
RecentRows == { << >> }

\* ------------------------------------------------------------------- Init
InitWith(rows) ==
  /\ isRunning = FALSE
  /\ subscribed = FALSE
  /\ processingInterval = FALSE
  /\ eventQueue = << >>
  /\ rules = << >>
  /\ lastTriggered = [ r \in RuleIds |-> Never ]
  /\ recentEvents = [ c \in Cameras |-> << >> ]
  /\ tasks = {}
  /\ loading = 0
  /\ dbRules = rows
  /\ lastLoad = "none"
  /\ now = 0
  /\ delivered = [ c \in Cameras |-> 0 ]
  /\ updates = 0
  /\ triggerLog = << >>
  /\ actionFeed = << >>
  /\ finished = {}
  /\ appended = [ c \in Cameras |-> << >> ]

ModelIds == { "m1" }

NoCall == [ outcome |-> "none" ]

\* A new KNNClassifier over a samples table holding `store`.
InitClassifier(store) ==
  /\ knn = [ k |-> DefaultK, similarityThreshold |-> DefaultSimilarityThreshold ]
  /\ sampleStore = store
  /\ classifying = {}
  /\ returned = NoCall

NoSamples == [ m \in ModelIds |-> << >> ]

\* The other workers after construction.
InitWorkers ==
  /\ detectionFeed = << >>
  /\ motionFeed = << >>
  /\ inferenceRunning = FALSE
  /\ frameQueue = [ c \in Cameras |-> << >> ]
  /\ frameKeys = << >>
  /\ framePasses = << >>
  /\ framesReceived = [ c \in Cameras |-> 0 ]
  /\ frameHanded = << >>
  /\ streamState = "none"
  /\ ffmpeg = FALSE
  /\ ffmpegAlive = 0
  /\ reconnectTimers = 0
  /\ reconnectAttempts = 0
  /\ healthStatus = "healthy"
  /\ frameCount = 0
  /\ reconnectRun = 0
  /\ actionsRunning = FALSE
  /\ actionQueue = << >>
  /\ executing = {}
  /\ requested = 0
  /\ actionResults = << >>
  /\ executionLog = << >>
  /\ resultLog = << >>

Init == InitWith(RuleSetA) /\ InitClassifier(NoSamples) /\ InitWorkers

\* ------------------------------------------------------------ RuleEngine
\* The publishAction call executeAction makes for an action, none for an
\* action of unknown type.
executeActionEveryType(action, context) ==
  << [ type |-> action.type, cameraId |-> context.cameraId, eventId |-> context.event.id ] >>

executeAction(action, context) ==
  IF action.type \in KnownActionTypes
  THEN << [ type |-> action.type, cameraId |-> context.cameraId, eventId |-> context.event.id ] >>
  ELSE << >>

\* The calls of triggerRule's loop over rule.actions.
RECURSIVE executeActions(_, _)
executeActions(actions, context) ==
  IF actions = << >> THEN << >>
  ELSE executeAction(Head(actions), context) \o executeActions(Tail(actions), context)

\* Indexes of the actions for which executeAction awaits a publishAction call.
Publishing(actions) == { i \in 1..Len(actions) : actions[i].type \in KnownActionTypes }

\* The publishRuleTriggered call of triggerRule: rule id, camera id and data.
RuleTriggered(rule, evaluation, context) ==
  [ ruleId |-> rule.id, cameraId |-> context.cameraId,
    conditionsMet |-> evaluation.conditionsMet, event |-> context.event ]

\* Variant of triggerRule without the try/catch around executeAction: the
\* first rejected publishAction call ends triggerRule.
triggerRuleUncaught(rule, evaluation, context, failed, publishOk) ==
  IF failed = {}
  THEN [ requests |-> executeActions(rule.actions, context), notification |-> TRUE,
         ruleTriggered |-> << RuleTriggered(rule, evaluation, context) >>,
         throws |-> ~ publishOk ]
  ELSE LET first == CHOOSE i \in failed : \A k \in failed : i <= k
       IN  [ requests |-> executeActions(SubSeq(rule.actions, 1, first), context),
             notification |-> FALSE, ruleTriggered |-> << >>, throws |-> TRUE ]

\* triggerRule after lastTriggered.set: every action is executed, a rejected
\* publishAction call (those at the indexes `failed`) being caught and
\* logged; then publishRuleTriggered is called, and when it resolves
\* (publishOk) storeRuleExecution, which catches its own errors.
triggerRule(rule, evaluation, context, failed, publishOk) ==
  [ requests |-> executeActions(rule.actions, context), notification |-> TRUE,
    ruleTriggered |-> << RuleTriggered(rule, evaluation, context) >>,
    throws |-> ~ publishOk ]

\* Variant that drops the newest entry (pop) where the code drops the oldest.
addToRecentEventsPop(recent, event) ==
  LET pushed == Append(recent[event.cameraId], event)
  IN  [ recent EXCEPT ![event.cameraId] =
          IF Len(pushed) > HistoryCapacity THEN SubSeq(pushed, 1, HistoryCapacity) ELSE pushed ]

addToRecentEvents(recent, event) ==
  LET pushed == Append(recent[event.cameraId], event)
  IN  [ recent EXCEPT ![event.cameraId] =
          IF Len(pushed) > HistoryCapacity THEN Tail(pushed) ELSE pushed ]

\* Variant of getRecentEvents that hands on the rows of an earlier read when
\* the query fails.
getRecentEventsStale(rows, queryOk) == rows

\* What getRecentEvents returns: the rows of the query, [] when it failed.
getRecentEvents(rows, queryOk) == IF queryOk THEN rows ELSE << >>

\* An interval callback entering processEvent for its pos-th item: it awaits
\* the query of getRecentEvents.
AwaitContext(batch, pos) ==
  [ batch |-> batch, pos |-> pos, pc |-> "context", it |-> 0, recent |-> << >>,
    historyOk |-> TRUE, seen |-> << >>, caches |-> { rules } ]

\* The callback's for loop moves to its next item, or the callback returns.
NextItem(t) ==
  IF t.pos = Len(t.batch) THEN tasks \ { t }
  ELSE (tasks \ { t }) \cup { AwaitContext(t.batch, t.pos + 1) }

\* What evaluateRule returns for the rule at position j of the cache.
Evaluation(j, context, clock) ==
  LET e == evaluateRule(rules[j], context, lastTriggered[rules[j].id], clock)
  IN  [ rule |-> rules[j], now |-> clock, last |-> lastTriggered[rules[j].id],
        outcome |-> e.outcome, triggered |-> e.triggered, conditionsMet |-> e.conditionsMet ]

ProcessedRecord(t, recent, historyOk, seen, outcome, clock) ==
  [ event |-> t.batch[t.pos], recent |-> recent, historyOk |-> historyOk, outcome |-> outcome,
    seen |-> seen, caches |-> t.caches, at |-> clock ]

\* processEvent's loop over this.rules.values() from iterator position `from`
\* up to its next await of real I/O: rules are evaluated until one triggers,
\* a condition throws, or the iterator is exhausted.  `clock` is what
\* new Date() returns during the run; `failed` are the actions of the
\* triggering rule whose publishAction call is rejected; publishRuleTriggered
\* may throw.
RunRules(t, recent, historyOk, from, clock, failed) ==
  \E context \in { EventContext(t.batch[t.pos], recent) } :
  \E evals \in { [ j \in from..Len(rules) |-> Evaluation(j, context, clock) ] } :
  LET event == t.batch[t.pos]
      stops == { j \in from..Len(rules) :
                   /\ rules[j].enabled
                   /\ (evals[j].outcome = "throw" \/ evals[j].triggered) }
      stop == IF stops = {} THEN 0 ELSE CHOOSE j \in stops : \A k \in stops : j <= k
      upTo == IF stop = 0 THEN Len(rules) ELSE stop
      visited == [ i \in 1..(upTo - from + 1) |-> evals[from + i - 1] ]
      IsEnabled(e) == e.rule.enabled
      seen == t.seen \o SelectSeq(visited, IsEnabled)
  IN  IF stop = 0
      THEN \* every rule evaluated: the event goes to the history
           /\ failed = {}
           /\ recentEvents' = addToRecentEvents(recentEvents, event)
           /\ appended' = [ appended EXCEPT ![event.cameraId] = Append(@, event) ]
           /\ finished' = finished \cup { ProcessedRecord(t, recent, historyOk, seen, "done", clock) }
           /\ tasks' = NextItem(t)
           /\ UNCHANGED << lastTriggered, triggerLog, actionFeed >>
      ELSE IF evals[stop].outcome = "throw"
      THEN \* the error reaches processEvent's catch
           /\ failed = {}
           /\ finished' = finished \cup { ProcessedRecord(t, recent, historyOk, seen, "condition-error", clock) }
           /\ tasks' = NextItem(t)
           /\ UNCHANGED << lastTriggered, recentEvents, appended, triggerLog, actionFeed >>
      ELSE \* triggerRule
           /\ failed \subseteq Publishing(rules[stop].actions)
           /\ lastTriggered' = [ lastTriggered EXCEPT ![rules[stop].id] = clock ]
           /\ \E publishOk \in BOOLEAN :
                LET call == triggerRule(rules[stop], evals[stop], context, failed, publishOk)
                IN  /\ triggerLog' = Append(triggerLog,
                          [ rule |-> rules[stop], event |-> event, recent |-> recent,
                            now |-> clock, conditionsMet |-> evals[stop].conditionsMet,
                            failed |-> failed, notification |-> call.notification,
                            ruleTriggered |-> call.ruleTriggered,
                            publishOk |-> publishOk, lastLoad |-> lastLoad ])
                    /\ actionFeed' = actionFeed \o call.requests
                    /\ IF call.throws
                       THEN \* the error reaches processEvent's catch
                            /\ finished' = finished \cup
                                 { ProcessedRecord(t, recent, historyOk, seen, "trigger-error", clock) }
                            /\ tasks' = NextItem(t)
                       ELSE \* awaiting storeRuleExecution
                            /\ tasks' = (tasks \ { t }) \cup
                                 { [ t EXCEPT !.pc = "trigger", !.it = stop + 1,
                                              !.recent = recent, !.historyOk = historyOk,
                                              !.seen = seen ] }
                            /\ UNCHANGED finished
           /\ UNCHANGED << recentEvents, appended >>

\* ---------------------------------------------------------------- actions
\* RulesEngineWorker.start(): the initial loadRules (a failed query leaves
\* the cache empty), the subscriptions, the interval, isRunning.
Start(queryOk) ==
  /\ ~isRunning /\ ~subscribed /\ ~processingInterval
  /\ rules' = IF queryOk THEN dbRules ELSE rules
  /\ lastLoad' = IF queryOk THEN "loaded" ELSE "failed"
  /\ isRunning' = TRUE
  /\ subscribed' = TRUE
  /\ processingInterval' = TRUE
  /\ UNCHANGED << eventQueue, lastTriggered, recentEvents, tasks, loading, dbRules, now,
                  delivered, updates, triggerLog, actionFeed, finished, appended >>
  /\ UNCHANGED << knnVars, workerVars >>

Enqueue(event) ==
  /\ eventQueue' = Append(eventQueue, event)
  /\ delivered' = [ delivered EXCEPT ![event.cameraId] = @ + 1 ]
  /\ UNCHANGED << isRunning, subscribed, processingInterval, rules, lastTriggered,
                  recentEvents, tasks, loading, dbRules, lastLoad, now, updates, triggerLog,
                  actionFeed, finished, appended >>
  /\ UNCHANGED << knnVars, workerVars >>

\* handleDetectionEvent: the parsed payload is queued as it is.
HandleDetectionEvent(cameraId, payload) ==
  /\ subscribed
  /\ Enqueue([ id |-> << cameraId, delivered[cameraId] + 1 >>, cameraId |-> cameraId,
               timestamp |-> payload.timestamp, detectionType |-> payload.detectionType,
               confidence |-> payload.confidence, zones |-> payload.zones,
               severity |-> payload.severity,
               customDetections |-> payload.customDetections ])

\* handleMotionEvent: the payload is converted to a detection-like event.
HandleMotionEvent(cameraId, payload) ==
  /\ subscribed
  /\ Enqueue([ id |-> << cameraId, delivered[cameraId] + 1 >>, cameraId |-> cameraId,
               timestamp |-> payload.timestamp, detectionType |-> "motion",
               confidence |-> MotionConfidence, zones |-> << >>,
               severity |-> IF payload.severity = NoString THEN "medium" ELSE payload.severity,
               customDetections |-> << >> ])

\* handleConfigUpdate: reloadRules() is started when update.type is 'rules';
\* such a message is sent after the rules table was rewritten to `rows`.
HandleConfigUpdate(type, rows) ==
  /\ subscribed
  /\ IF type = "rules"
     THEN dbRules' = rows /\ updates' = updates + 1 /\ loading' = loading + 1
     ELSE UNCHANGED << dbRules, updates, loading >>
  /\ UNCHANGED << isRunning, subscribed, processingInterval, eventQueue, rules, lastLoad,
                  lastTriggered, recentEvents, tasks, now, delivered, triggerLog,
                  actionFeed, finished, appended >>
  /\ UNCHANGED << knnVars, workerVars >>

\* Variant of loadRules that starts the cooldowns afresh with the cache.
LoadRulesDoneResetting(queryOk) ==
  /\ loading > 0
  /\ loading' = loading - 1
  /\ lastLoad' = IF queryOk THEN "loaded" ELSE "failed"
  /\ IF queryOk
     THEN /\ rules' = dbRules
          /\ lastTriggered' = [ r \in RuleIds |-> Never ]
          /\ tasks' = { [ t EXCEPT !.it = IF t.pc = "trigger" THEN 1 ELSE t.it,
                                   !.caches = @ \cup { dbRules } ] : t \in tasks }
     ELSE UNCHANGED << rules, tasks, lastTriggered >>
  /\ UNCHANGED << isRunning, subscribed, processingInterval, eventQueue,
                  recentEvents, dbRules, now, delivered, updates, triggerLog,
                  actionFeed, finished, appended >>
  /\ UNCHANGED << knnVars, workerVars >>

\* loadRules after its query: on success rules.clear() and one rules.set per
\* row, without an await in between; on failure the catch leaves the cache.
\* Map.prototype.clear() empties the entries a live iterator has not reached
\* and the rows are inserted after its position, so a suspended iteration
\* goes on through every new entry.
LoadRulesDone(queryOk) ==
  /\ loading > 0
  /\ loading' = loading - 1
  /\ lastLoad' = IF queryOk THEN "loaded" ELSE "failed"
  /\ IF queryOk
     THEN /\ rules' = dbRules
          /\ tasks' = { [ t EXCEPT !.it = IF t.pc = "trigger" THEN 1 ELSE t.it,
                                   !.caches = @ \cup { dbRules } ] : t \in tasks }
     ELSE UNCHANGED << rules, tasks >>
  /\ UNCHANGED << isRunning, subscribed, processingInterval, eventQueue, lastTriggered,
                  recentEvents, dbRules, now, delivered, updates, triggerLog,
                  actionFeed, finished, appended >>
  /\ UNCHANGED << knnVars, workerVars >>

Min(a, b) == IF a < b THEN a ELSE b

\* Variant of the interval callback that takes the whole queue as its batch.
ProcessingTickWhole ==
  /\ processingInterval
  /\ isRunning /\ eventQueue # << >>
  /\ tasks' = tasks \cup { AwaitContext(eventQueue, 1) }
  /\ eventQueue' = << >>
  /\ UNCHANGED << isRunning, subscribed, processingInterval, rules, lastTriggered,
                  recentEvents, loading, dbRules, lastLoad, now, delivered, updates, triggerLog,
                  actionFeed, finished, appended >>
  /\ UNCHANGED << knnVars, workerVars >>

\* The interval callback: it takes a batch off the queue and enters
\* processEvent for the first item.
ProcessingTick ==
  /\ processingInterval
  /\ isRunning /\ eventQueue # << >>
  /\ LET n == Min(batchSize, Len(eventQueue))
     IN  /\ tasks' = tasks \cup { AwaitContext(SubSeq(eventQueue, 1, n), 1) }
         /\ eventQueue' = SubSeq(eventQueue, n + 1, Len(eventQueue))
  /\ UNCHANGED << isRunning, subscribed, processingInterval, rules, lastTriggered,
                  recentEvents, loading, dbRules, lastLoad, now, delivered, updates, triggerLog,
                  actionFeed, finished, appended >>
  /\ UNCHANGED << knnVars, workerVars >>

\* RulesEngineWorker.stop(): isRunning is cleared, the interval is cleared,
\* both MQTT clients are ended and the database is closed.  Nothing in it
\* touches the queue or a callback suspended in its batch.
Stop ==
  /\ isRunning
  /\ isRunning' = FALSE
  /\ processingInterval' = FALSE
  /\ subscribed' = FALSE
  /\ UNCHANGED << eventQueue, rules, lastTriggered, recentEvents, tasks, loading, dbRules,
                  lastLoad, now, delivered, updates, triggerLog, actionFeed, finished,
                  appended >>
  /\ UNCHANGED << knnVars, workerVars >>

\* The wall clock is read only by the two steps below; each takes the time
\* `clock` at which it runs, not earlier than the last time read.
\* the query of getRecentEvents is answered with `rows` or fails;
\* processEvent builds the context and starts iterating this.rules.values().
ContextReady(t, rows, queryOk, clock, failed) ==
  /\ t \in tasks /\ t.pc = "context"
  /\ now' = clock
  /\ RunRules(t, getRecentEvents(rows, queryOk), queryOk, 1, clock, failed)
  /\ UNCHANGED << isRunning, subscribed, processingInterval, eventQueue, rules, loading,
                  dbRules, lastLoad, delivered, updates >>
  /\ UNCHANGED << knnVars, workerVars >>

\* triggerRule returns; the iteration goes on.
TriggerDone(t, clock, failed) ==
  /\ t \in tasks /\ t.pc = "trigger"
  /\ now' = clock
  /\ RunRules(t, t.recent, t.historyOk, t.it, clock, failed)
  /\ UNCHANGED << isRunning, subscribed, processingInterval, eventQueue, rules, loading,
                  dbRules, lastLoad, delivered, updates >>
  /\ UNCHANGED << knnVars, workerVars >>

\* ---------------------------------------------------------- specification
Total(f) == f["cam1"] + f["cam2"]

\* The worker with a rules table that does not change.
Next ==
  \/ \E ok \in BOOLEAN : Start(ok)
  \/ \E p \in DetectionPayloads :
       Total(delivered) < MaxEvents /\ HandleDetectionEvent("cam1", p)
  \/ Cardinality(tasks) < MaxInFlight /\ ProcessingTick
  \/ \E t \in tasks, rows \in RecentRows, clock \in now..MaxTime :
       ContextReady(t, rows, TRUE, clock, {})
  \/ \E t \in tasks, clock \in now..MaxTime : TriggerDone(t, clock, {})

Spec == Init /\ [][Next]_vars

\* The worker while the rules table is rewritten and reloaded; the clock
\* stands still.
NextReload ==
  \/ \E ok \in BOOLEAN : Start(ok)
  \/ \E p \in DetectionPayloads :
       Total(delivered) < MaxReloadEvents /\ HandleDetectionEvent("cam1", p)
  \/ \E p \in MotionPayloads :
       Total(delivered) < MaxReloadEvents /\ HandleMotionEvent("cam2", p)
  \/ \E type \in { "rules", "other" }, rows \in RuleSets :
       updates < MaxUpdates /\ HandleConfigUpdate(type, rows)
  \/ \E ok \in BOOLEAN : LoadRulesDone(ok)
  \/ Cardinality(tasks) < MaxInFlight /\ ProcessingTick
  \/ \E t \in tasks, rows \in RecentRows : ContextReady(t, rows, TRUE, now, {})
  \/ \E t \in tasks : TriggerDone(t, now, {})

SpecReload == Init /\ [][NextReload]_vars

\* The worker while rules are edited, removed and added again with the same
\* id; the clock stands still.
MaxSurviveEvents == 1
MaxSurviveUpdates == 2

\* r1 of RuleSetA edited, its cooldown kept.
RuleC1 ==
  [ id |-> "r1", enabled |-> TRUE, cooldownMinutes |-> 2,
    conditions |-> << [ Condition("severity", "equals") EXCEPT !.severity = "high" ] >>,
    actions |-> << Action("light") >> ]

RuleSetC == << RuleC1 >>
EditedRuleSets == { RuleSetA, RuleSetB, RuleSetC, << >> }

NextSurvive ==
  \/ \E ok \in BOOLEAN : Start(ok)
  \/ \E p \in DetectionPayloads :
       Total(delivered) < MaxSurviveEvents /\ HandleDetectionEvent("cam1", p)
  \/ \E rows \in EditedRuleSets :
       updates < MaxSurviveUpdates /\ HandleConfigUpdate("rules", rows)
  \/ \E ok \in BOOLEAN : LoadRulesDone(ok)
  \/ Cardinality(tasks) < MaxInFlight /\ ProcessingTick
  \/ \E t \in tasks, rows \in RecentRows : ContextReady(t, rows, TRUE, now, {})
  \/ \E t \in tasks : TriggerDone(t, now, {})

SpecSurvive == Init /\ [][NextSurvive]_vars

\* The worker fed a long run of events while the rules table has no enabled
\* row; a batch completes before the next interval callback.
InitHistory == InitWith(<< >>) /\ InitClassifier(NoSamples) /\ InitWorkers

NextHistory ==
  \/ \E ok \in BOOLEAN : Start(ok)
  \/ \E p \in { q \in DetectionPayloads : q.timestamp # InvalidDate } :
       /\ delivered["cam1"] < MaxHistEvents /\ Len(eventQueue) < MaxHistQueue
       /\ HandleDetectionEvent("cam1", p)
  \/ \E p \in MotionPayloads :
       /\ delivered["cam2"] < MaxHistSide /\ Len(eventQueue) < MaxHistQueue
       /\ HandleMotionEvent("cam2", p)
  \/ tasks = {} /\ ProcessingTick
  \/ \E t \in tasks, rows \in RecentRows : ContextReady(t, rows, TRUE, now, {})

SpecHistory == InitHistory /\ [][NextHistory]_vars

\* The worker while more events than a batch holds wait in the queue; the
\* rules table has no enabled row, the clock stands still and a batch
\* completes before the next interval callback.
MaxQueueEvents == 11
MaxQueueSide == 1

NextQueue ==
  \/ \E ok \in BOOLEAN : Start(ok)
  \/ \E p \in { q \in DetectionPayloads : q.timestamp # InvalidDate } :
       delivered["cam1"] < MaxQueueEvents /\ HandleDetectionEvent("cam1", p)
  \/ \E p \in MotionPayloads :
       delivered["cam2"] < MaxQueueSide /\ HandleMotionEvent("cam2", p)
  \/ tasks = {} /\ ProcessingTick
  \/ \E t \in tasks, rows \in RecentRows : ContextReady(t, rows, TRUE, now, {})

SpecQueue == InitHistory /\ [][NextQueue]_vars

\* The worker started once and stopped; after stop() the database is closed,
\* so the query of getRecentEvents fails.  The clock stands still.
MaxStopEvents == 2

NextStop ==
  \/ \E ok \in BOOLEAN : lastLoad = "none" /\ Start(ok)
  \/ \E p \in { q \in DetectionPayloads : q.timestamp # InvalidDate } :
       Total(delivered) < MaxStopEvents /\ HandleDetectionEvent("cam1", p)
  \/ \E p \in MotionPayloads :
       Total(delivered) < MaxStopEvents /\ HandleMotionEvent("cam2", p)
  \/ Cardinality(tasks) < MaxInFlight /\ ProcessingTick
  \/ Stop
  \/ \E t \in tasks, rows \in RecentRows : ContextReady(t, rows, isRunning, now, {})
  \/ \E t \in tasks : TriggerDone(t, now, {})

SpecStop == Init /\ [][NextStop]_vars


\* The worker with an action broker that may reject publishAction calls;
\* a batch completes before the next interval callback and the clock stands.
ActionIndexes == 1..3

NextActions ==
  \/ \E ok \in BOOLEAN : Start(ok)
  \/ \E p \in DetectionPayloads :
       Total(delivered) < MaxActionEvents /\ HandleDetectionEvent("cam1", p)
  \/ tasks = {} /\ ProcessingTick
  \/ \E t \in tasks, rows \in RecentRows, failed \in SUBSET ActionIndexes :
       ContextReady(t, rows, TRUE, now, failed)
  \/ \E t \in tasks, failed \in SUBSET ActionIndexes : TriggerDone(t, now, failed)

SpecActions == Init /\ [][NextActions]_vars

\* The worker over a detections table whose query may fail.
MaxDegradedEvents == 2

RuleD1 ==
  [ id |-> "r1", enabled |-> TRUE, cooldownMinutes |-> 0,
    conditions |-> << [ Condition("frequency", NoString)
                          EXCEPT !.frequencyThreshold = 2, !.frequencyTimeWindow = 10 ] >>,
    actions |-> << Action("siren") >> ]

RuleD3 ==
  [ id |-> "r3", enabled |-> TRUE, cooldownMinutes |-> 0,
    conditions |-> << [ Condition("frequency", NoString)
                          EXCEPT !.frequencyThreshold = 1, !.frequencyTimeWindow = 10,
                                 !.detectionType = "person" ],
                      [ Condition("zone", "in") EXCEPT !.zone = "driveway" ] >>,
    actions |-> << Action("record") >> ]

RuleD4 ==
  [ id |-> "r4", enabled |-> TRUE, cooldownMinutes |-> 0,
    conditions |-> << [ Condition("confidence", "greater_than_or_equal")
                          EXCEPT !.confidenceThreshold = 80 ] >>,
    actions |-> << Action("notification") >> ]

RuleSetD == << RuleD1, RuleD3, RuleD4 >>

\* A row of the detections table as getRecentEvents maps it.
StoredEvent(n, detectionType, zones) ==
  [ id |-> << "cam1", -n >>, cameraId |-> "cam1", timestamp |-> Noon,
    detectionType |-> detectionType, confidence |-> 90, zones |-> zones,
    severity |-> "high", customDetections |-> << >> ]

DegradedRows ==
  { << >>,
    << StoredEvent(1, "person", << "driveway" >>) >>,
    << StoredEvent(1, "person", << "driveway", "porch" >>),
       StoredEvent(2, "vehicle", << "driveway" >>) >> }

InitDegraded == InitWith(RuleSetD) /\ InitClassifier(NoSamples) /\ InitWorkers

NextDegraded ==
  \/ Start(TRUE)
  \/ \E p \in DetectionPayloads :
       Total(delivered) < MaxDegradedEvents /\ HandleDetectionEvent("cam1", p)
  \/ tasks = {} /\ ProcessingTick
  \/ \E t \in tasks, rows \in DegradedRows, queryOk \in BOOLEAN :
       ContextReady(t, rows, queryOk, now, {})
  \/ \E t \in tasks : TriggerDone(t, now, {})

SpecDegraded == InitDegraded /\ [][NextDegraded]_vars

\* The worker over a detections table that fills as time passes.
MaxFrequencyEvents == 2

RuleF1 ==
  [ id |-> "r1", enabled |-> TRUE, cooldownMinutes |-> 0,
    conditions |-> << [ Condition("frequency", NoString)
                          EXCEPT !.frequencyThreshold = 3, !.frequencyTimeWindow = 10 ] >>,
    actions |-> << Action("siren") >> ]

RuleF2 ==
  [ id |-> "r2", enabled |-> TRUE, cooldownMinutes |-> 0,
    conditions |-> << [ Condition("frequency", NoString)
                          EXCEPT !.frequencyThreshold = 2, !.frequencyTimeWindow = 100,
                                 !.detectionType = "person" ] >>,
    actions |-> << Action("record") >> ]

RuleSetF == << RuleF1, RuleF2 >>

DetectionRow(n, cameraId, timestamp, detectionType) ==
  [ id |-> << cameraId, -n >>, cameraId |-> cameraId, timestamp |-> timestamp,
    detectionType |-> detectionType, confidence |-> 90, zones |-> << >>,
    severity |-> "high", customDetections |-> << >> ]

\* The rows of the detections table, newest first; a row is in the table
\* from the minute of its timestamp on.
DetectionsTable ==
  << DetectionRow(1, "cam1", 2, "person"), DetectionRow(2, "cam1", 1, "vehicle"),
     DetectionRow(3, "cam2", 0, "person"), DetectionRow(4, "cam1", -8, "person"),
     DetectionRow(5, "cam1", -90, "person") >>

\* SELECT * FROM detections WHERE camera_id = ? AND timestamp >=
\* datetime('now', '-60 minutes') ORDER BY timestamp DESC, run at `clock`.
queryDetections(table, cameraId, minutes, clock) ==
  SelectSeq(table, LAMBDA row : /\ row.cameraId = cameraId
                                /\ row.timestamp <= clock
                                /\ row.timestamp >= clock - minutes)

InitFrequency == InitWith(RuleSetF) /\ InitClassifier(NoSamples) /\ InitWorkers

NextFrequency ==
  \/ Start(TRUE)
  \/ \E p \in DetectionPayloads, c \in Cameras :
       Total(delivered) < MaxFrequencyEvents /\ HandleDetectionEvent(c, p)
  \/ tasks = {} /\ ProcessingTick
  \/ \E t \in tasks, clock \in now..MaxTime :
       ContextReady(t, queryDetections(DetectionsTable, t.batch[t.pos].cameraId,
                                       RecentMinutes, clock),
                    TRUE, clock, {})
  \/ \E t \in tasks : TriggerDone(t, now, {})

SpecFrequency == InitFrequency /\ [][NextFrequency]_vars

\* The worker with a rule that has a condition of an unknown type.
MaxUnknownEvents == 2

RuleU1 ==
  [ id |-> "r1", enabled |-> TRUE, cooldownMinutes |-> 0,
    conditions |-> << [ Condition("confidence", "greater_than_or_equal")
                          EXCEPT !.confidenceThreshold = 50 ],
                      [ Condition("weather", "equals") EXCEPT !.severity = "low" ] >>,
    actions |-> << Action("siren") >> ]

RuleU2 ==
  [ id |-> "r2", enabled |-> TRUE, cooldownMinutes |-> 0,
    conditions |-> << [ Condition("confidence", "greater_than_or_equal")
                          EXCEPT !.confidenceThreshold = 80 ] >>,
    actions |-> << Action("notification") >> ]

RuleU3 ==
  [ id |-> "r3", enabled |-> TRUE, cooldownMinutes |-> 0,
    conditions |-> << [ Condition(NoString, NoString) EXCEPT !.detectionType = "person" ] >>,
    actions |-> << Action("light") >> ]

RuleSetU == << RuleU1, RuleU2, RuleU3 >>

InitUnknown == InitWith(RuleSetU) /\ InitClassifier(NoSamples) /\ InitWorkers

NextUnknown ==
  \/ Start(TRUE)
  \/ \E p \in DetectionPayloads, c \in Cameras :
       Total(delivered) < MaxUnknownEvents /\ HandleDetectionEvent(c, p)
  \/ tasks = {} /\ ProcessingTick
  \/ \E t \in tasks, rows \in RecentRows : ContextReady(t, rows, TRUE, now, {})
  \/ \E t \in tasks : TriggerDone(t, now, {})

SpecUnknown == InitUnknown /\ [][NextUnknown]_vars

\* ------------------------------------------------------ KNNClassifier steps
Max(a, b) == IF a > b THEN a ELSE b

setK(k) ==
  /\ knn' = [ knn EXCEPT !.k = Max(1, k) ]
  /\ returned' = NoCall
  /\ UNCHANGED << sampleStore, classifying >>
  /\ UNCHANGED << engineVars, workerVars >>

setSimilarityThreshold(threshold) ==
  /\ knn' = [ knn EXCEPT !.similarityThreshold = Max(0, Min(Unit, threshold)) ]
  /\ returned' = NoCall
  /\ UNCHANGED << sampleStore, classifying >>
  /\ UNCHANGED << engineVars, workerVars >>

\* addTrainingSample once its INSERT has been answered: on an error nothing
\* is stored and the error is rethrown.
addTrainingSample(embedding, label, modelId, insertOk) ==
  /\ sampleStore' = IF insertOk
                    THEN [ sampleStore EXCEPT ![modelId] =
                             Append(@, [ embedding |-> embedding, label |-> label ]) ]
                    ELSE sampleStore
  /\ returned' = NoCall
  /\ UNCHANGED << knn, classifying >>
  /\ UNCHANGED << engineVars, workerVars >>

\* clearTrainingData once its DELETE has been answered.
clearTrainingData(modelId, deleteOk) ==
  /\ sampleStore' = IF deleteOk THEN [ sampleStore EXCEPT ![modelId] = << >> ] ELSE sampleStore
  /\ returned' = [ outcome |-> "cleared", modelId |-> modelId, resolved |-> deleteOk ]
  /\ UNCHANGED << knn, classifying >>
  /\ UNCHANGED << engineVars, workerVars >>

\* classify up to its first await: k, threshold and useDistance are fixed
\* from the options and the classifier's settings.
classify(queryEmbedding, modelId, options) ==
  /\ classifying' = classifying \cup
       { [ queryEmbedding |-> queryEmbedding, modelId |-> modelId, options |-> options,
           k |-> OrDefault(options.k, knn.k),
           threshold |-> OrDefault(options.similarityThreshold, knn.similarityThreshold),
           useDistance |-> options.useDistance ] }
  /\ returned' = NoCall
  /\ UNCHANGED << knn, sampleStore >>
  /\ UNCHANGED << engineVars, workerVars >>

\* Variant of classify without the check for an empty sample list.
classifyOutcomesUnchecked(call, samples, embeddingOk, storeOk) ==
  IF ~ embeddingOk \/ ~ storeOk THEN { [ outcome |-> "throw" ] }
  ELSE LET distances == [ i \in 1..Len(samples) |->
                            Distance(call.queryEmbedding, samples[i], call.useDistance) ]
       IN  { classifySorted([ i \in 1..Len(samples) |-> distances[p[i]] ],
                            call.k, call.threshold) : p \in sort(distances) }

\* What classify can settle with once the embedding was extracted
\* (embeddingOk) and the samples were read (storeOk): an error of either is
\* logged and rethrown.
classifyOutcomes(call, samples, embeddingOk, storeOk) ==
  IF ~ embeddingOk \/ ~ storeOk THEN { [ outcome |-> "throw" ] }
  ELSE IF Len(samples) = 0 THEN { [ outcome |-> "null" ] }
  ELSE IF \E i \in 1..Len(samples) :
            DimensionMismatch(call.queryEmbedding, samples[i].embedding)
  THEN { [ outcome |-> "throw" ] }
  ELSE LET distances == [ i \in 1..Len(samples) |->
                            Distance(call.queryEmbedding, samples[i], call.useDistance) ]
       IN  { classifySorted([ i \in 1..Len(samples) |-> distances[p[i]] ],
                            call.k, call.threshold) : p \in sort(distances) }

\* The rest of classify, run when the samples query is answered.
classifyFetched(call, embeddingOk, storeOk) ==
  /\ call \in classifying
  /\ classifying' = classifying \ { call }
  /\ \E result \in classifyOutcomes(call, sampleStore[call.modelId], embeddingOk, storeOk) :
       returned' = [ outcome |-> "returned", call |-> call,
                     samples |-> sampleStore[call.modelId],
                     embeddingOk |-> embeddingOk, storeOk |-> storeOk, result |-> result ]
  /\ UNCHANGED << knn, sampleStore >>
  /\ UNCHANGED << engineVars, workerVars >>

\* ------------------------------------------------- classifier specification
Labels == { "cat", "dog" }

Query == << 4, 3 >>

\* The samples on offer: the query itself under both labels, its mirror image
\* and its opposite.
Samples ==
  { [ embedding |-> << 4, 3 >>, label |-> "cat" ],
    [ embedding |-> << 4, 3 >>, label |-> "dog" ],
    [ embedding |-> << -4, 3 >>, label |-> "cat" ],
    [ embedding |-> << -4, -3 >>, label |-> "cat" ] }

SampleLists == UNION { [ 1..n -> Samples ] : n \in 0..MaxSamples }

KOptions == { NoOption, -1, 3 }
ThresholdOptions == { NoOption, -(Unit \div 2) }
KSettings == { -1, 2 }
ThresholdSettings == { 0, (3 * Unit) \div 2 }

InitKnn ==
  /\ InitWith(<< >>)
  /\ \E list \in SampleLists : InitClassifier([ m \in ModelIds |-> list ])
  /\ InitWorkers

NextKnn ==
  \/ \E k \in KSettings : setK(k)
  \/ \E threshold \in ThresholdSettings : setSimilarityThreshold(threshold)
  \/ \E modelId \in ModelIds, sample \in Samples, ok \in BOOLEAN :
       /\ Len(sampleStore[modelId]) < MaxSamples
       /\ addTrainingSample(sample.embedding, sample.label, modelId, ok)
  \/ \E modelId \in ModelIds, ok \in BOOLEAN : clearTrainingData(modelId, ok)
  \/ \E modelId \in ModelIds, k \in KOptions, threshold \in ThresholdOptions,
         useDistance \in BOOLEAN :
       /\ classifying = {}
       /\ classify(Query, modelId, [ k |-> k, similarityThreshold |-> threshold,
                                     useDistance |-> useDistance ])
  \/ \E call \in classifying, embeddingOk, storeOk \in BOOLEAN :
       classifyFetched(call, embeddingOk, storeOk)

SpecKnn == InitKnn /\ [][NextKnn]_vars

\* ------------------------------------------------ EmbeddingModel, by itself
\* A call of cosineSimilarity: it throws for embeddings of different length.
similarity(embedding1, embedding2) ==
  /\ returned' =
       IF DimensionMismatch(embedding1, embedding2)
       THEN [ outcome |-> "similarity", embedding1 |-> embedding1, embedding2 |-> embedding2,
              throws |-> TRUE, value |-> 0 ]
       ELSE [ outcome |-> "similarity", embedding1 |-> embedding1, embedding2 |-> embedding2,
              throws |-> FALSE, value |-> cosineSimilarity(embedding1, embedding2) ]
  /\ UNCHANGED << knn, sampleStore, classifying >>
  /\ UNCHANGED << engineVars, workerVars >>

MaxDimension == 2

Coordinates == { 0, 3, 4, -4, Huge }

\* The embeddings of up to MaxDimension coordinates whose norm the model
\* computes exactly.
Embeddings ==
  { e \in UNION { [ 1..n -> Coordinates ] : n \in 1..MaxDimension } :
      \/ \E i \in 1..Len(e) : e[i] = Huge
      \/ \E r \in 0..(4 * Len(e)) : r * r = Dot(e, e) }

\* One call per behaviour, on any two of the embeddings.
NextEmbedding ==
  /\ returned = NoCall
  /\ \E embedding1, embedding2 \in Embeddings : similarity(embedding1, embedding2)

SpecEmbedding == Init /\ [][NextEmbedding]_vars

\* ------------------------------------------ evaluateCondition, by itself
\* A call of evaluateCondition for an event without recent events.
evaluate(cond, event) ==
  LET context == EventContext(event, << >>)
      throws == evaluateConditionThrows(cond, context)
  IN  /\ returned' = [ outcome |-> "condition", condition |-> cond, event |-> event,
                       throws |-> throws,
                       value |-> IF throws THEN FALSE ELSE evaluateCondition(cond, context, now) ]
      /\ UNCHANGED << knn, sampleStore, classifying >>
      /\ UNCHANGED << engineVars, workerVars >>

\* "22:00-06:00"
Overnight == HHmm(22, 0) \o << Dash >> \o HHmm(6, 0)

SeverityInputs == { "low", "medium", "high", "critical" }

TimeRanges ==
  { << >>, OfficeHours, Overnight, HHmm(12, 0), HHmm(23, 30),
    HHmm(12, 0) \o << Dash >> \o HHmm(12, 0) }

ConditionInputs ==
  { [ Condition("detection", op) EXCEPT !.detectionType = type, !.detectionTypes = types ] :
      op \in { "equals", "not_equals", "in", "matches" }, type \in { NoString, "person" },
      types \in { << >>, << "vehicle", "person" >>, << "vehicle" >> } }
  \cup
  { [ Condition("confidence", op) EXCEPT !.confidenceThreshold = threshold ] :
      op \in { "greater_than", "greater_than_or_equal", "less_than", "less_than_or_equal",
               "equals" },
      threshold \in { NoNumber, 0, 50, 100 } }
  \cup
  { [ Condition("time", NoString) EXCEPT !.timeRange = range ] : range \in TimeRanges }
  \cup
  { [ Condition("severity", op) EXCEPT !.severity = severity ] :
      op \in { "equals", "greater_than_or_equal", "less_than" },
      severity \in SeverityInputs \cup { NoString } }
  \cup
  { [ Condition(type, "equals") EXCEPT !.detectionType = "person", !.severity = "low",
                                      !.confidenceThreshold = 50 ] :
      type \in { "weather", NoString } }
  \cup
  { [ Condition("zone", op) EXCEPT !.zone = "driveway" ] : op \in { "in", "not_in" } }
  \cup
  { [ Condition("custom", NoString) EXCEPT !.customDetection = "package" ] }

EventInputs ==
  { [ id |-> << "cam1", 1 >>, cameraId |-> "cam1", timestamp |-> timestamp,
      detectionType |-> type, confidence |-> percent, zones |-> << "driveway" >>,
      severity |-> severity, customDetections |-> << >> ] :
      timestamp \in { 0, 6 * 60, Noon, LateEvening, InvalidDate },
      type \in { "person", "vehicle" }, percent \in { 0, 50, 100 },
      severity \in SeverityInputs }

\* One call per behaviour.
NextConditions ==
  /\ returned = NoCall
  /\ \E cond \in ConditionInputs, event \in EventInputs : evaluate(cond, event)

SpecConditions == Init /\ [][NextConditions]_vars

\* ------------------------------------------------------------- properties
\* Every evaluateRule call made so far, with the event and the recent-events
\* rows of the processEvent call that made it.
Evaluations ==
  UNION { { [ event |-> f.event, recent |-> f.recent, eval |-> f.seen[i] ] :
              i \in 1..Len(f.seen) } : f \in finished }
  \cup
  UNION { { [ event |-> t.batch[t.pos], recent |-> t.recent, eval |-> t.seen[i] ] :
              i \in 1..Len(t.seen) } : t \in tasks }

\* Every condition of the rule evaluates to true for the event, none raising.
AllConditionsTrue(rule, event, recent, clock) ==
  LET context == EventContext(event, recent)
  IN  \A i \in 1..Len(rule.conditions) :
        /\ ~ evaluateConditionThrows(rule.conditions[i], context)
        /\ evaluateCondition(rule.conditions[i], context, clock)

TriggerCount(rule, event) ==
  Cardinality({ i \in 1..Len(triggerLog) :
                  triggerLog[i].rule = rule /\ triggerLog[i].event = event })

LastN(s, n) == IF Len(s) <= n THEN s ELSE SubSeq(s, Len(s) - n + 1, Len(s))

\* C1: a rule with cooldownMinutes = N > 0 that triggered at t0 does not
\* trigger again at any time strictly between t0 and t0 + N.
CooldownRespected ==
  \A i, j \in 1..Len(triggerLog) :
    ( /\ i < j
      /\ triggerLog[i].rule = triggerLog[j].rule
      /\ triggerLog[i].rule.cooldownMinutes > 0 )
    => ~ ( /\ triggerLog[i].now < triggerLog[j].now
           /\ triggerLog[j].now < triggerLog[i].now + triggerLog[i].rule.cooldownMinutes )

\* C2: a rule with cooldownMinutes = N > 0 that triggered at t0 triggers
\* again for an event evaluated after t0 + N whose conditions are all true.
RearmsAfterCooldown ==
  \A x \in Evaluations :
    ( /\ x.eval.rule.cooldownMinutes > 0
      /\ x.eval.last # Never
      /\ x.eval.now > x.eval.last + x.eval.rule.cooldownMinutes
      /\ x.eval.rule.conditions # << >>
      /\ AllConditionsTrue(x.eval.rule, x.event, x.recent, x.eval.now) )
    => x.eval.triggered

\* C3: a rule with a condition that is false for the event is not triggered
\* for it: every triggerRule call is for a rule whose conditions are all true,
\* lastTriggered is only ever set by such a call and every action request
\* belongs to the event of such a call.
AndSemantics ==
  /\ \A i \in 1..Len(triggerLog) :
       AllConditionsTrue(triggerLog[i].rule, triggerLog[i].event,
                         triggerLog[i].recent, triggerLog[i].now)
  /\ \A x \in Evaluations :
       (\E i \in 1..Len(x.eval.conditionsMet) : ~ x.eval.conditionsMet[i])
       => ~ x.eval.triggered /\ TriggerCount(x.eval.rule, x.event) = 0
  /\ \A r \in RuleIds :
       lastTriggered[r] # Never
       => \E i \in 1..Len(triggerLog) :
            triggerLog[i].rule.id = r /\ triggerLog[i].now = lastTriggered[r]
  /\ \A k \in 1..Len(actionFeed) :
       \E i \in 1..Len(triggerLog) : triggerLog[i].event.id = actionFeed[k].eventId

\* A rule was evaluated with one condition false and another true, while
\* another rule triggered.
AndSemanticsWitness ==
  /\ \E x \in Evaluations :
       /\ x.eval.outcome = "evaluated"
       /\ \E i \in 1..Len(x.eval.conditionsMet) : ~ x.eval.conditionsMet[i]
       /\ \E i \in 1..Len(x.eval.conditionsMet) : x.eval.conditionsMet[i]
  /\ triggerLog # << >>

\* C4: a rule whose conditions list is empty never triggers.
EmptyConditionsGuard ==
  /\ \A i \in 1..Len(triggerLog) : triggerLog[i].rule.conditions # << >>
  /\ \A x \in Evaluations : x.eval.rule.conditions = << >> => ~ x.eval.triggered
  /\ \A rs \in RuleSets : \A j \in 1..Len(rs) :
       (\A qs \in RuleSets : \A k \in 1..Len(qs) :
           qs[k].id = rs[j].id => qs[k].conditions = << >>)
       => lastTriggered[rs[j].id] = Never

\* A rule with an empty conditions list has been evaluated.
EmptyConditionsWitness ==
  \E x \in Evaluations :
    x.eval.rule.conditions = << >> /\ x.eval.outcome = "evaluated"

\* C5: recentEvents[camera] never holds more than 100 events, and it is the
\* last 100 of the events appended for the camera, in insertion order.
HistoryBound ==
  \A c \in Cameras :
    /\ Len(recentEvents[c]) <= HistoryCapacity
    /\ recentEvents[c] = LastN(appended[c], HistoryCapacity)

\* More than 100 events of one camera have been processed.
HistoryBoundWitness ==
  \E c \in Cameras :
    /\ Len(appended[c]) > HistoryCapacity
    /\ recentEvents[c][1] = appended[c][Len(appended[c]) - HistoryCapacity + 1]

\* C6: the rules evaluated for an event are exactly one of the rule sets the
\* cache held while the event was being processed.
AtomicReload ==
  \A f \in finished :
    f.outcome = "done"
    => [ i \in 1..Len(f.seen) |-> f.seen[i].rule ] \in f.caches

\* C7: at most one processEvent evaluation is in progress at any time.
SerializedEvaluation == Cardinality(tasks) <= 1

\* The action requests of the first n triggerRule calls: one per entry of
\* rule.actions, or one per entry of a known type.
RECURSIVE RequestsOf(_, _)
RequestsOf(n, knownOnly) ==
  IF n = 0 THEN << >>
  ELSE LET tr == triggerLog[n]
           all == [ i \in 1..Len(tr.rule.actions) |->
                      [ type |-> tr.rule.actions[i].type,
                        cameraId |-> tr.event.cameraId, eventId |-> tr.event.id ] ]
           IsKnown(q) == q.type \in KnownActionTypes
       IN  RequestsOf(n - 1, knownOnly)
             \o (IF knownOnly THEN SelectSeq(all, IsKnown) ELSE all)

NoCooldownTriggersOnce ==
  \A f \in finished : \A rs \in f.caches : \A j \in 1..Len(rs) :
    ( /\ f.caches = { rs }
      /\ rs[j].enabled
      /\ rs[j].cooldownMinutes = 0
      /\ rs[j].conditions # << >>
      /\ AllConditionsTrue(rs[j], f.event, f.recent, f.at) )
    => TriggerCount(rs[j], f.event) = 1

\* C10: when a condition of a rule raises for an event, processEvent still
\* evaluates every enabled rule for the event and appends it to the history.
ConditionErrorContained ==
  \A f \in finished : \A rs \in f.caches :
    ( /\ f.caches = { rs }
      /\ \E j \in 1..Len(rs) :
           rs[j].enabled /\ FirstThrow(rs[j], EventContext(f.event, f.recent)) # 0 )
    => /\ \A j \in 1..Len(rs) :
            rs[j].enabled => \E i \in 1..Len(f.seen) : f.seen[i].rule = rs[j]
       /\ \E k \in 1..Len(appended[f.event.cameraId]) :
            appended[f.event.cameraId][k] = f.event

\* The event is in the list of events appended to its camera's history.
Appended(event) ==
  \E k \in 1..Len(appended[event.cameraId]) : appended[event.cameraId][k] = event

EnabledRules == SelectSeq(rules, LAMBDA r : r.enabled)

FrequencyConditions(rule) ==
  { i \in 1..Len(rule.conditions) : rule.conditions[i].type = "frequency" }

\* C19: when the detections query of getRecentEvents fails, processEvent works
\* on an empty recent-event list and an empty zone tally; no rule-triggered
\* publish having failed, it evaluates every enabled rule, its frequency
\* conditions being false and its other conditions what they are for the
\* event under any history, and appends the event to the history.
HistoryFailureDegrades ==
  \A f \in finished :
    ~f.historyOk
    => LET context == EventContext(f.event, f.recent)
       IN  /\ f.recent = << >>
           /\ DOMAIN context.zoneHistory = {}
           /\ f.outcome # "trigger-error"
              => /\ f.outcome = "done"
                 /\ Len(f.seen) = Len(EnabledRules)
                 /\ \A i \in 1..Len(f.seen) :
                      LET e == f.seen[i]
                          result == evaluateRule(e.rule, context, e.last, e.now)
                      IN  /\ e.rule = EnabledRules[i]
                          /\ e.outcome = result.outcome
                          /\ e.outcome # "throw"
                          /\ e.triggered = result.triggered
                          /\ e.conditionsMet = result.conditionsMet
                          /\ \A c \in FrequencyConditions(e.rule) :
                               ~evaluateCondition(e.rule.conditions[c], context, e.now)
                          /\ \A c \in DOMAIN e.rule.conditions \ FrequencyConditions(e.rule) :
                               \A rows \in DegradedRows :
                                 evaluateCondition(e.rule.conditions[c], context, e.now)
                                   = evaluateCondition(e.rule.conditions[c],
                                                       EventContext(f.event, rows), e.now)
                 /\ Appended(f.event)

\* processEvent has returned for an event whose history query failed: a rule
\* of frequency conditions did not trigger, another rule did, and the event
\* is in the history.
HistoryFailureWitness ==
  \E f \in finished :
    /\ ~f.historyOk /\ f.outcome = "done" /\ Appended(f.event)
    /\ \E i \in 1..Len(f.seen) :
         FrequencyConditions(f.seen[i].rule) # {} /\ ~f.seen[i].triggered
    /\ \E i \in 1..Len(f.seen) :
         FrequencyConditions(f.seen[i].rule) = {} /\ f.seen[i].triggered

\* C20: when the rules query of loadRules fails, in initialize() or in
\* reloadRules(), the failure does not reach the caller and the cache holds
\* no rule, so that no rule triggers until a later load succeeds.
RuleStoreFailureEmpty ==
  /\ lastLoad # "none" => isRunning
  /\ lastLoad = "failed" => rules = << >>
  /\ \A i \in 1..Len(triggerLog) : triggerLog[i].lastLoad # "failed"

\* -------------------------------------------------- classifier properties
\* A classify call has just settled after its embedding was extracted and
\* its samples were read.
Classified ==
  /\ returned.outcome = "returned"
  /\ returned.embeddingOk /\ returned.storeOk

\* The entries of the settled call's samples, in sample order.
Entries ==
  [ i \in 1..Len(returned.samples) |->
      Distance(returned.call.queryEmbedding, returned.samples[i], returned.call.useDistance) ]

\* The indexes of the samples nearest to the query.
Nearest ==
  { i \in 1..Len(Entries) : \A j \in 1..Len(Entries) : Entries[i].distance <= Entries[j].distance }

\* The summed similarity of a label among the returned neighbors.
LabelScore(neighbors, label) ==
  Sum([ i \in 1..Len(neighbors) |->
          IF neighbors[i].label = label THEN neighbors[i].confidence ELSE 0 ])

FirstRank(neighbors, label) ==
  CHOOSE i \in 1..Len(neighbors) :
    neighbors[i].label = label /\ \A j \in 1..(i - 1) : neighbors[j].label # label

\* C12: when the nearest sample's similarity is below the threshold in
\* effect, classify returns null; every result returned has a best neighbor,
\* the nearest sample, of similarity at least the threshold.
ThresholdGate ==
  (Classified /\ returned.samples # << >>)
  => /\ (\E i \in Nearest : Entries[i].similarity < returned.call.threshold)
          => returned.result.outcome = "null"
     /\ returned.result.outcome = "result"
          => /\ returned.result.neighbors[1].confidence >= returned.call.threshold
             /\ \E i \in Nearest :
                  /\ returned.result.neighbors[1].distance = Entries[i].distance
                  /\ returned.result.distance = Entries[i].distance

\* C13: a classify call has exactly one possible result for its query, its
\* sample list, k, threshold and useDistance, the one it settles with.
Determinism ==
  /\ \A call \in classifying :
       Cardinality(classifyOutcomes(call, sampleStore[call.modelId], TRUE, TRUE)) = 1
  /\ Classified
       => classifyOutcomes(returned.call, returned.samples, TRUE, TRUE) = { returned.result }

\* A call returned a result for samples of two labels at equal distance.
DeterminismWitness ==
  /\ Classified
  /\ returned.result.outcome = "result"
  /\ \E i, j \in 1..Len(Entries) :
       /\ i # j
       /\ Entries[i].distance = Entries[j].distance
       /\ Entries[i].label # Entries[j].label
       /\ Len(returned.result.neighbors) >= 2

\* C14: the label returned is a label of the neighbors that maximizes the
\* label's summed similarity, the one of best rank among those that do.
WeightedVote ==
  (Classified /\ returned.result.outcome = "result")
  => LET neighbors == returned.result.neighbors
         label == returned.result.label
     IN  /\ \E i \in 1..Len(neighbors) : neighbors[i].label = label
         /\ \A i \in 1..Len(neighbors) :
              \/ LabelScore(neighbors, neighbors[i].label) < LabelScore(neighbors, label)
              \/ /\ LabelScore(neighbors, neighbors[i].label) = LabelScore(neighbors, label)
                 /\ FirstRank(neighbors, label) <= i

\* C15: for k >= 1 and a threshold in [0, 1] the confidence of a result
\* lies in [0, 1].
ConfidenceBounds ==
  ( /\ Classified /\ returned.result.outcome = "result"
    /\ returned.call.k >= 1
    /\ returned.call.threshold >= 0 /\ returned.call.threshold <= Unit )
  => /\ returned.result.confidence # NaN
     /\ returned.result.confidence >= 0
     /\ returned.result.confidence <= Unit

\* C16: the classifier's k is at least 1 and its threshold in [0, 1], and so
\* are the k and the threshold of every classify call; a call selects a
\* neighbor whenever there are samples.
EffectiveParameters ==
  /\ knn.k >= 1 /\ knn.similarityThreshold >= 0 /\ knn.similarityThreshold <= Unit
  /\ \A call \in classifying :
       call.k >= 1 /\ call.threshold >= 0 /\ call.threshold <= Unit
  /\ (Classified /\ returned.samples # << >>) => returned.result.outcome # "throw"

\* C17: classify returns null, raising nothing, when the model has no
\* samples; a completed clearTrainingData leaves the model without samples.
EmptyModel ==
  /\ (Classified /\ returned.samples = << >>) => returned.result.outcome = "null"
  /\ (returned.outcome = "cleared" /\ returned.resolved)
       => sampleStore[returned.modelId] = << >>

\* classify has settled for a model without samples.
EmptyModelWitness ==
  /\ Classified
  /\ returned.samples = << >>
  /\ sampleStore[returned.call.modelId] = << >>

\* C18: when the read of the samples fails, classify returns null.
StoreFailureDegrades ==
  (returned.outcome = "returned" /\ returned.embeddingOk /\ ~ returned.storeOk)
  => returned.result.outcome = "null"

\* ------------------------------------------------- rule engine, continued
\* The rule is in its cooldown at `clock`, having last triggered at `last`.
InCooldown(rule, last, clock) ==
  /\ last # Never
  /\ rule.cooldownMinutes > 0
  /\ last < clock /\ clock < last + rule.cooldownMinutes

\* The step calls triggerRule once, for the rule of id r.
TriggersRule(r) ==
  /\ Len(triggerLog') = Len(triggerLog) + 1
  /\ triggerLog'[Len(triggerLog')].rule.id = r

\* C21: lastTriggered[r] changes only in a step that triggers the rule r, and
\* that step is for an event for which r is enabled, not in its cooldown and
\* has every condition true; the entries of the other rules stay as they are.
LastTriggeredFrame ==
  [][ \A r \in RuleIds :
        lastTriggered'[r] # lastTriggered[r]
        => /\ TriggersRule(r)
           /\ LET call == triggerLog'[Len(triggerLog')]
              IN  /\ call.rule.enabled
                  /\ ~ InCooldown(call.rule, lastTriggered[r], call.now)
                  /\ AllConditionsTrue(call.rule, call.event, call.recent, call.now)
                  /\ lastTriggered'[r] = call.now ]_vars

\* The frame alone: an entry of lastTriggered changes only in a step that
\* triggers its rule.
LastTriggeredOnlyByTrigger ==
  [][ \A r \in RuleIds : lastTriggered'[r] # lastTriggered[r] => TriggersRule(r) ]_vars

AppendedBefore(event) ==
  LET log == appended[event.cameraId]
  IN  SelectSeq(log, LAMBDA e : e.id[2] < event.id[2])

\* C23: a frequency condition evaluated for an event counts the events of the
\* camera that the engine has appended to its history before: when enough of
\* them lie in the window (and are of the condition's detection type), the
\* condition is met whatever the detections query returned.
InMemoryAuthoritative ==
  \A f \in finished : \A i \in 1..Len(f.seen) :
    LET e == f.seen[i]
    IN  e.outcome = "evaluated"
        => \A c \in FrequencyConditions(e.rule) :
             evaluateFrequencyCondition(e.rule.conditions[c], AppendedBefore(f.event), e.now)
             => e.conditionsMet[c]
\* The rows of the camera in the table at `clock` whose timestamp lies in the
\* window of the condition and that are of its detection type, if it has one.
InWindow(condition, cameraId, clock) ==
  { k \in 1..Len(DetectionsTable) :
      /\ DetectionsTable[k].cameraId = cameraId
      /\ DetectionsTable[k].timestamp <= clock
      /\ DetectionsTable[k].timestamp >= clock - condition.frequencyTimeWindow
      /\ condition.detectionType # NoString
         => DetectionsTable[k].detectionType = condition.detectionType }

\* C25: a frequency condition of window > 0 and threshold > 0 is met exactly
\* when the camera's events with timestamp >= now - window (those of the
\* condition's detection type, if it has one) number at least the threshold.
FrequencyExact ==
  \A f \in finished : \A i \in 1..Len(f.seen) :
    LET e == f.seen[i]
    IN  e.outcome = "evaluated"
        => \A c \in FrequencyConditions(e.rule) :
             LET condition == e.rule.conditions[c]
             IN  ( condition.frequencyTimeWindow > 0 /\ condition.frequencyThreshold > 0 )
                 => ( e.conditionsMet[c]
                      <=> Cardinality(InWindow(condition, f.event.cameraId, e.now))
                            >= condition.frequencyThreshold )

\* The same for the windows of at most an hour.
FrequencyExactWithinHour ==
  \A f \in finished : \A i \in 1..Len(f.seen) :
    LET e == f.seen[i]
    IN  e.outcome = "evaluated"
        => \A c \in FrequencyConditions(e.rule) :
             LET condition == e.rule.conditions[c]
             IN  ( /\ condition.frequencyTimeWindow > 0
                   /\ condition.frequencyTimeWindow <= RecentMinutes
                   /\ condition.frequencyThreshold > 0 )
                 => ( e.conditionsMet[c]
                      <=> Cardinality(InWindow(condition, f.event.cameraId, e.now))
                            >= condition.frequencyThreshold )

\* -------------------------------------------- condition evaluator properties
\* An evaluateCondition call on a condition of the type has just returned.
Evaluated(type) ==
  /\ returned.outcome = "condition" /\ returned.condition.type = type
  /\ ~ returned.throws

\* C26: a detection condition with equals is met iff the event's detection
\* type is the condition's, with not_equals iff it is not, with in iff it is
\* in the condition's list of types; it is not met when the operand the
\* operator needs is missing.
DetectionExact ==
  Evaluated("detection")
  => LET cond == returned.condition
         event == returned.event
     IN  returned.value
         <=> CASE cond.operator = "equals" ->
                    cond.detectionType # NoString /\ event.detectionType = cond.detectionType
               [] cond.operator = "not_equals" ->
                    cond.detectionType # NoString /\ event.detectionType # cond.detectionType
               [] cond.operator = "in" -> SeqIncludes(cond.detectionTypes, event.detectionType)
               [] OTHER -> FALSE

\* C27: a confidence condition with a threshold in [0, 1], 0 included, is
\* met iff the event's confidence compares with the threshold as the
\* operator says; it is not met when the threshold is absent or the operator
\* is none of the four.
ConfidenceExact ==
  Evaluated("confidence")
  => LET cond == returned.condition
         event == returned.event
     IN  returned.value
         <=> /\ cond.confidenceThreshold # NoNumber
             /\ CASE cond.operator = "greater_than" ->
                        event.confidence > cond.confidenceThreshold
                   [] cond.operator = "greater_than_or_equal" ->
                        event.confidence >= cond.confidenceThreshold
                   [] cond.operator = "less_than" ->
                        event.confidence < cond.confidenceThreshold
                   [] cond.operator = "less_than_or_equal" ->
                        event.confidence <= cond.confidenceThreshold
                   [] OTHER -> FALSE

\* The same for the thresholds above 0.
ConfidenceExactAboveZero ==
  ( Evaluated("confidence") /\ returned.condition.confidenceThreshold # 0 )
  => LET cond == returned.condition
         event == returned.event
     IN  returned.value
         <=> /\ cond.confidenceThreshold # NoNumber
             /\ CASE cond.operator = "greater_than" ->
                        event.confidence > cond.confidenceThreshold
                   [] cond.operator = "greater_than_or_equal" ->
                        event.confidence >= cond.confidenceThreshold
                   [] cond.operator = "less_than" ->
                        event.confidence < cond.confidenceThreshold
                   [] cond.operator = "less_than_or_equal" ->
                        event.confidence <= cond.confidenceThreshold
                   [] OTHER -> FALSE

\* The minute of the day that a zero-padded "HH:MM" names.
MinuteOfDay(hhmm) ==
  ((hhmm[1] - Digit(0)) * 10 + (hhmm[2] - Digit(0))) * 60
    + (hhmm[4] - Digit(0)) * 10 + (hhmm[5] - Digit(0))

\* C28: a time condition with a range "HH:MM-HH:MM" is met exactly when the
\* time of the event lies between the two, both ends included, so a range
\* whose start is after its end is met at no time; a value without '-' is
\* met exactly at that time of day; without a value it is not met.
TimeExact ==
  Evaluated("time")
  => LET range == returned.condition.timeRange
         minute == returned.event.timestamp % (24 * 60)
     IN  returned.value
         <=> IF range = << >> THEN FALSE
             ELSE IF Includes(range, Dash)
             THEN /\ MinuteOfDay(SubSeq(range, 1, 5)) <= minute
                  /\ minute <= MinuteOfDay(SubSeq(range, 7, 11))
             ELSE MinuteOfDay(range) = minute

\* "22:00-06:00" has been evaluated at 23:30 and is not met.
TimeExactWitness ==
  /\ Evaluated("time")
  /\ returned.condition.timeRange = Overnight
  /\ returned.event.timestamp = LateEvening
  /\ ~ returned.value

SeverityLevels == { "low", "medium", "high" }

Ord(level) == CASE level = "low" -> 1 [] level = "medium" -> 2 [] level = "high" -> 3

\* C29: a severity condition with equals is met iff the event's severity is
\* the condition's value, with greater_than_or_equal iff the event's level is
\* at least the value's in low < medium < high; it is not met when the value
\* is missing or the event's severity is none of the three levels.
SeverityExact ==
  Evaluated("severity")
  => LET cond == returned.condition
         event == returned.event
     IN  returned.value
         <=> /\ cond.severity # NoString
             /\ event.severity \in SeverityLevels
             /\ CASE cond.operator = "equals" -> event.severity = cond.severity
                   [] cond.operator = "greater_than_or_equal" ->
                        /\ cond.severity \in SeverityLevels
                        /\ Ord(event.severity) >= Ord(cond.severity)
                   [] OTHER -> FALSE

\* C29 as the code has it: with equals the condition is met iff the event's
\* severity is the condition's value, whatever string that is; with
\* greater_than_or_equal iff both are among low < medium < high and the
\* event's level is at least the value's; it is not met when the value is
\* missing or the operator is another one.
SeverityExactAmended ==
  Evaluated("severity")
  => LET cond == returned.condition
         event == returned.event
     IN  returned.value
         <=> /\ cond.severity # NoString
             /\ CASE cond.operator = "equals" -> event.severity = cond.severity
                   [] cond.operator = "greater_than_or_equal" ->
                        /\ event.severity \in SeverityLevels
                        /\ cond.severity \in SeverityLevels
                        /\ Ord(event.severity) >= Ord(cond.severity)
                   [] OTHER -> FALSE

\* A greater_than_or_equal condition on medium has been evaluated for an
\* event of severity high and is met.
SeverityExactWitness ==
  /\ Evaluated("severity")
  /\ returned.condition.operator = "greater_than_or_equal"
  /\ returned.condition.severity = "medium"
  /\ returned.event.severity = "high"
  /\ returned.value

KnownConditionTypes ==
  { "detection", "zone", "time", "frequency", "confidence", "severity", "custom" }

UnknownConditions(rule) ==
  { c \in 1..Len(rule.conditions) : rule.conditions[c].type \notin KnownConditionTypes }

\* C30: a condition of an unknown type evaluates to false and raises nothing:
\* the rule that contains it is evaluated and does not trigger, and the
\* other rules are evaluated for the same event (no rule-triggered publish
\* having failed).
UnknownConditionFalse ==
  /\ \A x \in Evaluations :
       UnknownConditions(x.eval.rule) # {}
       => /\ x.eval.outcome = "evaluated"
          /\ \A c \in UnknownConditions(x.eval.rule) : ~ x.eval.conditionsMet[c]
          /\ ~ x.eval.triggered
          /\ TriggerCount(x.eval.rule, x.event) = 0
  /\ \A f \in finished :
       f.outcome # "trigger-error"
       => /\ f.outcome = "done"
          /\ [ i \in 1..Len(f.seen) |-> f.seen[i].rule ] = rules

\* processEvent has returned for an event for which the rule with the unknown
\* condition had its other condition met and did not trigger, while a later
\* rule triggered.
UnknownConditionWitness ==
  \E f \in finished :
    /\ f.outcome = "done"
    /\ \E i, j \in 1..Len(f.seen) :
         /\ i < j
         /\ UnknownConditions(f.seen[i].rule) # {}
         /\ \E c \in 1..Len(f.seen[i].conditionsMet) : f.seen[i].conditionsMet[c]
         /\ ~ f.seen[i].triggered
         /\ f.seen[j].triggered

\* ------------------------------------------------ EmbeddingModel properties
ZeroVector(e) == \A i \in 1..Len(e) : e[i] = 0

\* C24: cosineSimilarity throws exactly for embeddings of different length;
\* otherwise it returns 0 when one of them is the zero vector and a number
\* in [-1, 1] when both are non-zero.
CosineRange ==
  returned.outcome = "similarity"
  => /\ returned.throws <=> Len(returned.embedding1) # Len(returned.embedding2)
     /\ ~ returned.throws
        => IF ZeroVector(returned.embedding1) \/ ZeroVector(returned.embedding2)
           THEN returned.value = 0
           ELSE /\ returned.value # NaN
                /\ returned.value >= -Unit /\ returned.value <= Unit

\* The part of it about zero vectors and different lengths.
CosineZeroAndMismatch ==
  returned.outcome = "similarity"
  => /\ returned.throws <=> Len(returned.embedding1) # Len(returned.embedding2)
     /\ ( /\ ~ returned.throws
          /\ ZeroVector(returned.embedding1) \/ ZeroVector(returned.embedding2) )
        => returned.value = 0

\* ---------------------------------------- classifier properties, continued
\* The neighbors are the entries of the samples at `ranks`, in this order.
Ranked(neighbors, ranks) ==
  /\ Len(neighbors) = Len(ranks)
  /\ \A i \in 1..Len(ranks) :
       /\ neighbors[i].label = Entries[ranks[i]].label
       /\ neighbors[i].distance = Entries[ranks[i]].distance
       /\ neighbors[i].confidence = Entries[ranks[i]].similarity

\* `ranks` lists samples by non-decreasing distance, samples of equal
\* distance in sample order, and no sample left out is nearer than a listed
\* one, nor as near and earlier in the store.
NearestFirst(ranks) ==
  LET Before(a, b) == \/ Entries[a].distance < Entries[b].distance
                      \/ Entries[a].distance = Entries[b].distance /\ a < b
  IN  /\ \A i, j \in 1..Len(ranks) : i < j => Before(ranks[i], ranks[j])
      /\ \A i \in 1..Len(ranks), e \in 1..Len(Entries) :
           (\A j \in 1..Len(ranks) : ranks[j] # e) => Before(ranks[i], e)

\* C31: the neighbors of a result are min(k, number of samples) entries, the
\* nearest samples by non-decreasing distance with samples of equal distance
\* in sample-store order, and the result's distance is the first neighbor's.
NeighborSelection ==
  (Classified /\ returned.result.outcome = "result")
  => LET neighbors == returned.result.neighbors
         size == Min(returned.call.k, Len(returned.samples))
     IN  /\ Len(neighbors) = size
         /\ \E ranks \in [ 1..Len(neighbors) -> 1..Len(Entries) ] :
              Ranked(neighbors, ranks) /\ NearestFirst(ranks)
         /\ neighbors # << >> /\ returned.result.distance = neighbors[1].distance

\* The same for the calls whose k is at least 1.
NeighborSelectionPositiveK ==
  (Classified /\ returned.result.outcome = "result" /\ returned.call.k >= 1)
  => LET neighbors == returned.result.neighbors
         size == Min(returned.call.k, Len(returned.samples))
     IN  /\ Len(neighbors) = size
         /\ \E ranks \in [ 1..Len(neighbors) -> 1..Len(Entries) ] :
              Ranked(neighbors, ranks) /\ NearestFirst(ranks)
         /\ neighbors # << >> /\ returned.result.distance = neighbors[1].distance

\* ------------------------------------------------------ InferenceProcessor
\* InferenceProcessor.customModels after loadModels, in insertion order: the
\* rows of SELECT * FROM custom_models WHERE enabled = 1.
CustomModels ==
  << [ id |-> "m1", enabled |-> TRUE, cameraIds |-> { "cam1" }, confidenceThreshold |-> 60 ],
     [ id |-> "m2", enabled |-> TRUE, cameraIds |-> { "cam1", "cam2" }, confidenceThreshold |-> 80 ] >>

CustomModelIds == { CustomModels[i].id : i \in 1..Len(CustomModels) }

\* The custom models runCustomClassification runs for a camera.
activeModels(cameraId) ==
  LET IsActive(model) == model.enabled /\ cameraId \in model.cameraIds
  IN  SelectSeq(CustomModels, IsActive)

\* Variant of runCustomClassification that keeps every classification,
\* whatever its confidence.
RECURSIVE runCustomClassificationAny(_, _)
runCustomClassificationAny(models, classified) ==
  IF models = << >> THEN << >>
  ELSE LET classification == classified[Head(models).id]
       IN  (IF classification.outcome = "result"
            THEN << [ label |-> classification.label,
                      confidence |-> classification.confidence ] >>
            ELSE << >>)
           \o runCustomClassificationAny(Tail(models), classified)

\* runCustomClassification over the active models: classified[id] is how
\* knnClassifier.classify settles for the model id (a result, null, or an
\* error, which is caught and logged).
RECURSIVE runCustomClassification(_, _)
runCustomClassification(models, classified) ==
  IF models = << >> THEN << >>
  ELSE LET classification == classified[Head(models).id]
       IN  (IF /\ classification.outcome = "result"
               /\ classification.confidence >= Head(models).confidenceThreshold
            THEN << [ label |-> classification.label,
                      confidence |-> classification.confidence ] >>
            ELSE << >>)
           \o runCustomClassification(Tail(models), classified)

\* customResults.reduce((best, current) =>
\*   current.confidence > best.confidence ? current : best)
RECURSIVE bestCustom(_)
bestCustom(customResults) ==
  IF Len(customResults) = 1 THEN customResults[1]
  ELSE LET best == bestCustom(SubSeq(customResults, 1, Len(customResults) - 1))
           current == customResults[Len(customResults)]
       IN  IF current.confidence > best.confidence THEN current ELSE best

calculateSeverity(detectionType, percent) ==
  IF detectionType = "person" /\ percent > 80 THEN "high"
  ELSE IF percent > 70 THEN "medium"
  ELSE "low"

\* The detection event processFrame publishes for one detection.
detectionEvent(cameraId, detection, classified) ==
  LET customResults ==
        IF detection.class \in { "person", "object" }
        THEN runCustomClassification(activeModels(cameraId), classified)
        ELSE << >>
      detectionType == IF customResults # << >>
                       THEN bestCustom(customResults).label ELSE detection.class
      percent == IF customResults # << >>
                 THEN bestCustom(customResults).confidence ELSE detection.confidence
  IN  [ cameraId |-> cameraId, detectionType |-> detectionType, confidence |-> percent,
        zones |-> detection.zones, customDetections |-> customResults,
        severity |-> calculateSeverity(detectionType, percent) ]

\* createMotionEvent: null (no event) without a detection of confidence
\* above 0.5.
createMotionEvent(cameraId, detections) ==
  LET IsSignificant(d) == d.confidence > 50
      significantDetections == SelectSeq(detections, IsSignificant)
  IN  IF significantDetections = << >> THEN << >>
      ELSE << [ cameraId |-> cameraId,
                severity |-> IF Len(significantDetections) > 2 THEN "medium" ELSE "low" ] >>

\* InferenceProcessor.processFrame: without the camera's row it returns
\* before the detector runs.  Else each of the detector's `detections` has
\* its event published and stored (storeDetection catches its own errors),
\* then the motion event is published.  The publish call number `failAt` is
\* rejected (0: none is; Len(detections) + 1 is the publishMotionEvent
\* call), which ends processFrame in its catch.
processFrame(cameraId, cameraFound, detections, classified, failAt) ==
  LET events == [ i \in 1..Len(detections) |->
                    [ detection |-> detections[i], classified |-> classified[i],
                      event |-> detectionEvent(cameraId, detections[i], classified[i]) ] ]
      lastCall == IF failAt = 0 THEN Len(detections) + 1 ELSE failAt - 1
  IN  /\ detectionFeed' = detectionFeed \o
           (IF cameraFound THEN SubSeq(events, 1, Min(lastCall, Len(detections))) ELSE << >>)
      /\ motionFeed' = motionFeed \o
           (IF cameraFound /\ lastCall > Len(detections)
            THEN createMotionEvent(cameraId, detections) ELSE << >>)
      /\ UNCHANGED << engineVars, knnVars >>

MaxDetections == 2

\* What the detector reports for a frame.
Detections ==
  { [ class |-> "person", confidence |-> 90, zones |-> << "driveway" >> ],
    [ class |-> "object", confidence |-> 60, zones |-> << >> ],
    [ class |-> "vehicle", confidence |-> 40, zones |-> << >> ] }

\* How knnClassifier.classify settles for a model.
Classifications ==
  { [ outcome |-> "null" ], [ outcome |-> "throw" ],
    [ outcome |-> "result", label |-> "alice", confidence |-> 70 ],
    [ outcome |-> "result", label |-> "parcel", confidence |-> 85 ] }

\* One processFrame call per behaviour.
NextInference ==
  /\ detectionFeed = << >> /\ motionFeed = << >>
  /\ UNCHANGED << frameVars, cameraVars, executorVars >>
  /\ \/ \E cameraId \in Cameras : processFrame(cameraId, FALSE, << >>, << >>, 0)
     \/ \E cameraId \in Cameras, n \in 1..MaxDetections :
          \E detections \in [ 1..n -> Detections ],
             classified \in [ 1..n -> [ CustomModelIds -> Classifications ] ],
             failAt \in 0..(n + 1) :
            processFrame(cameraId, TRUE, detections, classified, failAt)

SpecInference == Init /\ [][NextInference]_vars

\* ---------------------------------------------------------- InferenceWorker
FrameCapacity == 5

\* handleFrameMessage on a camera's queue: push, then shift when more than
\* five frames are queued.
handleFrameMessage(queue, frame) ==
  LET pushed == Append(queue, frame)
  IN  IF Len(pushed) > FrameCapacity THEN Tail(pushed) ELSE pushed

\* InferenceWorker.start(): the subscriptions, the interval, isRunning.
StartInference ==
  /\ ~ inferenceRunning
  /\ inferenceRunning' = TRUE
  /\ UNCHANGED << frameQueue, frameKeys, framePasses, framesReceived, frameHanded >>
  /\ UNCHANGED << engineVars, knnVars, feedVars, cameraVars, executorVars >>

\* A message on camera/{cameraId}/frame; a frame is named by its number in
\* the order of arrival at its camera.
HandleFrameMessage(cameraId) ==
  /\ inferenceRunning
  /\ framesReceived' = [ framesReceived EXCEPT ![cameraId] = @ + 1 ]
  /\ frameKeys' = IF \E i \in 1..Len(frameKeys) : frameKeys[i] = cameraId
                  THEN frameKeys ELSE Append(frameKeys, cameraId)
  /\ frameQueue' = [ frameQueue EXCEPT ![cameraId] =
                       handleFrameMessage(@, framesReceived[cameraId] + 1) ]
  /\ UNCHANGED << inferenceRunning, framePasses, frameHanded >>
  /\ UNCHANGED << engineVars, knnVars, feedVars, cameraVars, executorVars >>

\* The entries of the Map from iterator position `from` on whose queue is
\* not empty; 0 when the iterator is exhausted.
NextQueued(queues, keys, from) ==
  LET left == { i \in from..Len(keys) : queues[keys[i]] # << >> }
  IN  IF left = {} THEN 0 ELSE CHOOSE i \in left : \A k \in left : i <= k

\* processQueuedFrames reaches the entry at position `pos`: the most recent
\* frame of the queue goes to processor.processFrame.
HandFrame(queues, keys, pos) ==
  [ cameraId |-> keys[pos], frame |-> queues[keys[pos]][Len(queues[keys[pos]])],
    received |-> framesReceived[keys[pos]] ]

\* The interval callback: processQueuedFrames runs up to its first await.
FrameTick ==
  /\ inferenceRunning
  /\ \E pos \in { NextQueued(frameQueue, frameKeys, 1) } :
       /\ pos # 0
       /\ framePasses' = Append(framePasses, [ pos |-> pos ])
       /\ frameHanded' = Append(frameHanded, HandFrame(frameQueue, frameKeys, pos))
  /\ UNCHANGED << inferenceRunning, frameQueue, frameKeys, framesReceived >>
  /\ UNCHANGED << engineVars, knnVars, feedVars, cameraVars, executorVars >>

Without(list, i) == SubSeq(list, 1, i - 1) \o SubSeq(list, i + 1, Len(list))

\* processor.processFrame settles for the i-th suspended pass (a frame in
\* which the detector finds nothing, so nothing is published): the queue
\* of its camera is emptied and the iteration of the Map goes on.
FrameDone(i) ==
  /\ i \in 1..Len(framePasses)
  /\ processFrame(frameKeys[framePasses[i].pos], TRUE, << >>, << >>, 0)
  /\ \E cleared \in { [ frameQueue EXCEPT ![frameKeys[framePasses[i].pos]] = << >> ] } :
     \E pos \in { NextQueued(cleared, frameKeys, framePasses[i].pos + 1) } :
       /\ frameQueue' = cleared
       /\ IF pos = 0
          THEN /\ framePasses' = Without(framePasses, i)
               /\ UNCHANGED frameHanded
          ELSE /\ framePasses' = [ framePasses EXCEPT ![i] = [ pos |-> pos ] ]
               /\ frameHanded' = Append(frameHanded, HandFrame(cleared, frameKeys, pos))
  /\ UNCHANGED << inferenceRunning, frameKeys, framesReceived >>
  /\ UNCHANGED << cameraVars, executorVars >>

MaxFrames == 6
MaxSideFrames == 1
MaxPasses == 2

NextFrames ==
  \/ StartInference
  \/ framesReceived["cam1"] < MaxFrames /\ HandleFrameMessage("cam1")
  \/ framesReceived["cam2"] < MaxSideFrames /\ HandleFrameMessage("cam2")
  \/ Len(framePasses) < MaxPasses /\ FrameTick
  \/ \E i \in 1..Len(framePasses) : FrameDone(i)

SpecFrames == Init /\ [][NextFrames]_vars

\* ------------------------------------------------------------- CameraStream
maxReconnectAttempts == 5

\* startFFmpegStream: a process is spawned and becomes this.ffmpeg.
startFFmpegStream ==
  /\ ffmpeg' = TRUE
  /\ ffmpegAlive' = ffmpegAlive + 1

\* CameraManager.startCamera for a camera not in the Map: the stream is
\* created and started; when getInputUrl throws (a camera type that is not
\* supported) the stream is deleted again and no process was spawned.
StartCamera(supported) ==
  /\ streamState = "none"
  /\ IF supported
     THEN streamState' = "running" /\ startFFmpegStream
     ELSE streamState' = "stopped" /\ UNCHANGED << ffmpeg, ffmpegAlive >>
  /\ UNCHANGED << reconnectTimers, reconnectAttempts, healthStatus, frameCount, reconnectRun >>
  /\ UNCHANGED << engineVars, knnVars, feedVars, frameVars, executorVars >>

\* CameraManager.stopCamera: CameraStream.stop() sends SIGTERM to the process
\* and forgets it, and the stream is deleted from the Map.  The process
\* closes later; a pending timer is not cleared.
StopCamera ==
  /\ streamState = "running"
  /\ streamState' = "stopped"
  /\ ffmpeg' = FALSE
  /\ UNCHANGED << ffmpegAlive, reconnectTimers, reconnectAttempts, healthStatus, frameCount,
                  reconnectRun >>
  /\ UNCHANGED << engineVars, knnVars, feedVars, frameVars, executorVars >>

\* stdout 'data' of a process: processFrame pushes the frame, counts it,
\* reports 'healthy' and resets reconnectAttempts.
ProcessFrame ==
  /\ ffmpegAlive > 0
  /\ frameCount' = frameCount + 1
  /\ healthStatus' = "healthy"
  /\ reconnectAttempts' = 0
  /\ reconnectRun' = 0
  /\ UNCHANGED << streamState, ffmpeg, ffmpegAlive, reconnectTimers >>
  /\ UNCHANGED << engineVars, knnVars, feedVars, frameVars, executorVars >>

\* 'error' of a process.
FfmpegError ==
  /\ ffmpegAlive > 0
  /\ healthStatus' = "unhealthy"
  /\ UNCHANGED << streamState, ffmpeg, ffmpegAlive, reconnectTimers, reconnectAttempts,
                  frameCount, reconnectRun >>
  /\ UNCHANGED << engineVars, knnVars, feedVars, frameVars, executorVars >>

\* Variant of the close handler that schedules a reconnect every time.
FfmpegCloseAlways ==
  /\ ffmpegAlive > 0
  /\ ffmpegAlive' = ffmpegAlive - 1
  /\ ffmpeg' = FALSE
  /\ reconnectAttempts' = reconnectAttempts + 1
  /\ reconnectTimers' = reconnectTimers + 1
  /\ UNCHANGED << streamState, healthStatus, frameCount, reconnectRun >>
  /\ UNCHANGED << engineVars, knnVars, feedVars, frameVars, executorVars >>

\* 'close' of a process: this.ffmpeg = null; below maxReconnectAttempts the
\* attempt is counted and startFFmpegStream is scheduled, else the stream
\* reports 'unhealthy'.
FfmpegClose ==
  /\ ffmpegAlive > 0
  /\ ffmpegAlive' = ffmpegAlive - 1
  /\ ffmpeg' = FALSE
  /\ IF reconnectAttempts < maxReconnectAttempts
     THEN /\ reconnectAttempts' = reconnectAttempts + 1
          /\ reconnectTimers' = reconnectTimers + 1
          /\ UNCHANGED healthStatus
     ELSE /\ healthStatus' = "unhealthy"
          /\ UNCHANGED << reconnectAttempts, reconnectTimers >>
  /\ UNCHANGED << streamState, frameCount, reconnectRun >>
  /\ UNCHANGED << engineVars, knnVars, feedVars, frameVars, executorVars >>

\* The timer of the close handler fires: startFFmpegStream.
ReconnectTimer ==
  /\ reconnectTimers > 0
  /\ reconnectTimers' = reconnectTimers - 1
  /\ startFFmpegStream
  /\ reconnectRun' = reconnectRun + 1
  /\ UNCHANGED << streamState, reconnectAttempts, healthStatus, frameCount >>
  /\ UNCHANGED << engineVars, knnVars, feedVars, frameVars, executorVars >>

MaxCameraFrames == 3
MaxReconnectRun == 7

\* One CameraStream from startCamera on.
NextCamera ==
  \/ \E supported \in BOOLEAN : StartCamera(supported)
  \/ StopCamera
  \/ frameCount < MaxCameraFrames /\ ProcessFrame
  \/ FfmpegError
  \/ FfmpegClose
  \/ reconnectRun < MaxReconnectRun /\ ReconnectTimer

SpecCamera == Init /\ [][NextCamera]_vars

\* ----------------------------------------------------------- ActionExecutor
actionBatchSize == 10

\* The types executeAction has a case for.
ExecutorTypes == { "notification", "siren", "light", "webhook", "record", "custom" }

\* The types of the requests delivered: two with a case, one without.
RequestTypes == { "light", "webhook", "drone" }

\* The ActionResult of executeAction: that of the type's method when it
\* returns, the catch block's when it throws, the default case's for a type
\* without a case.
ActionResult(request, throws) ==
  IF request.type \notin ExecutorTypes
  THEN [ id |-> request.id, success |-> FALSE, message |-> "unknown", error |-> FALSE ]
  ELSE IF throws
  THEN [ id |-> request.id, success |-> FALSE, message |-> "failed", error |-> TRUE ]
  ELSE [ id |-> request.id, success |-> TRUE, message |-> "done", error |-> FALSE ]

\* ActionsServiceWorker.start(): the subscriptions, the interval, isRunning.
StartActions ==
  /\ ~ actionsRunning
  /\ actionsRunning' = TRUE
  /\ UNCHANGED << actionQueue, executing, requested, actionResults, executionLog, resultLog >>
  /\ UNCHANGED << engineVars, knnVars, feedVars, frameVars, cameraVars >>

\* handleActionRequest: a message on action/{type} is queued as a request;
\* its id (time and random suffix) is taken to be new.
HandleActionRequest(type) ==
  /\ actionsRunning
  /\ requested' = requested + 1
  /\ actionQueue' = Append(actionQueue, [ id |-> requested + 1, type |-> type ])
  /\ UNCHANGED << actionsRunning, executing, actionResults, executionLog, resultLog >>
  /\ UNCHANGED << engineVars, knnVars, feedVars, frameVars, cameraVars >>

\* The interval callback: a batch is spliced off the queue and executeAction
\* is called for each of its requests (Promise.allSettled over batch.map).
ActionTick ==
  /\ actionsRunning /\ actionQueue # << >>
  /\ LET n == Min(actionBatchSize, Len(actionQueue))
     IN  /\ executing' = executing \cup { actionQueue[i] : i \in 1..n }
         /\ actionQueue' = SubSeq(actionQueue, n + 1, Len(actionQueue))
  /\ UNCHANGED << actionsRunning, requested, actionResults, executionLog, resultLog >>
  /\ UNCHANGED << engineVars, knnVars, feedVars, frameVars, cameraVars >>

\* Variant of executeAction whose catch block returns its result without
\* storing or publishing it.
ExecuteActionQuiet(request, throws, insertOk, connected) ==
  /\ request \in executing
  /\ executing' = executing \ { request }
  /\ \E result \in { ActionResult(request, throws) } :
       /\ actionResults' = Append(actionResults, result)
       /\ IF result.error
          THEN UNCHANGED << executionLog, resultLog >>
          ELSE /\ executionLog' = Append(executionLog, [ result |-> result, stored |-> insertOk ])
               /\ resultLog' = Append(resultLog, [ result |-> result, sent |-> connected ])
  /\ UNCHANGED << actionsRunning, actionQueue, requested >>
  /\ UNCHANGED << engineVars, knnVars, feedVars, frameVars, cameraVars >>

\* executeAction from the settling of the type's method on: the result goes
\* to storeActionExecution, which catches a failed INSERT (insertOk), then
\* to publishActionResult, which sends nothing without a client
\* (connected), and is returned.
ExecuteAction(request, throws, insertOk, connected) ==
  /\ request \in executing
  /\ executing' = executing \ { request }
  /\ \E result \in { ActionResult(request, throws) } :
       /\ actionResults' = Append(actionResults, result)
       /\ executionLog' = Append(executionLog, [ result |-> result, stored |-> insertOk ])
       /\ resultLog' = Append(resultLog, [ result |-> result, sent |-> connected ])
  /\ UNCHANGED << actionsRunning, actionQueue, requested >>
  /\ UNCHANGED << engineVars, knnVars, feedVars, frameVars, cameraVars >>

MaxActionRequests == 3

NextExecutor ==
  \/ StartActions
  \/ \E type \in RequestTypes : requested < MaxActionRequests /\ HandleActionRequest(type)
  \/ ActionTick
  \/ \E request \in executing, throws \in BOOLEAN, insertOk \in BOOLEAN, connected \in BOOLEAN :
       ExecuteAction(request, throws, insertOk, connected)

SpecExecutor == Init /\ [][NextExecutor]_vars

\* ------------------------------------------------ InferenceProcessor properties
\* The active models of the entry's camera whose classification reached the
\* model's confidence threshold.
Qualifying(entry) ==
  { i \in 1..Len(CustomModels) :
      /\ CustomModels[i].enabled
      /\ entry.event.cameraId \in CustomModels[i].cameraIds
      /\ entry.classified[CustomModels[i].id].outcome = "result"
      /\ entry.classified[CustomModels[i].id].confidence >= CustomModels[i].confidenceThreshold }

\* C32: the event published for a person or object detection carries the
\* label and confidence of a highest-confidence classification among those
\* of the camera's enabled custom models that reached their threshold, and
\* the detector's class and confidence when there is none.
ClassifierOverride ==
  \A n \in 1..Len(detectionFeed) :
    LET entry == detectionFeed[n]
        custom(i) == entry.classified[CustomModels[i].id]
    IN  entry.detection.class \in { "person", "object" }
        => IF Qualifying(entry) = {}
           THEN /\ entry.event.detectionType = entry.detection.class
                /\ entry.event.confidence = entry.detection.confidence
           ELSE \E i \in Qualifying(entry) :
                  /\ \A j \in Qualifying(entry) : custom(j).confidence <= custom(i).confidence
                  /\ entry.event.detectionType = custom(i).label
                  /\ entry.event.confidence = custom(i).confidence

\* One frame gave a person detection overridden by the better of two
\* classifications, and another person or object detection published as the
\* detector reported it although a model classified it, below its threshold.
ClassifierOverrideWitness ==
  \E a, b \in 1..Len(detectionFeed) :
    /\ detectionFeed[a].detection.class = "person"
    /\ Cardinality(Qualifying(detectionFeed[a])) = 2
    /\ detectionFeed[a].event.detectionType = "parcel"
    /\ detectionFeed[b].detection.class \in { "person", "object" }
    /\ Qualifying(detectionFeed[b]) = {}
    /\ \E id \in CustomModelIds : detectionFeed[b].classified[id].outcome = "result"
    /\ detectionFeed[b].event.detectionType = detectionFeed[b].detection.class

\* ------------------------------------------------- rule engine and reloads
\* The triggerRule calls made for a rule id, and the latest of them.
Triggers(id) == { i \in 1..Len(triggerLog) : triggerLog[i].rule.id = id }

Latest(id) == CHOOSE i \in Triggers(id) : \A k \in Triggers(id) : k <= i

\* The rule, last triggered at `last`, is in its cooldown at `clock`, and the
\* time it has left.
Cooling(rule, last, clock) ==
  /\ last # Never
  /\ rule.cooldownMinutes > 0
  /\ clock < last + rule.cooldownMinutes

Remaining(rule, last, clock) == last + rule.cooldownMinutes - clock

\* C33 as stated: whatever reloads there were, the history is the last
\* events appended, lastTriggered holds the time of each cached rule's latest
\* trigger, and a rule whose id was in its cooldown when it last triggered
\* and would still be is in its cooldown as cached now, with the same time
\* left.
CooldownSurvivesReload ==
  /\ \A c \in Cameras : recentEvents[c] = LastN(appended[c], HistoryCapacity)
  /\ \A j \in 1..Len(rules) :
       Triggers(rules[j].id) # {}
       => LET rule == rules[j]
              call == triggerLog[Latest(rule.id)]
          IN  /\ lastTriggered[rule.id] = call.now
              /\ Cooling(call.rule, call.now, now)
                 => /\ Cooling(rule, lastTriggered[rule.id], now)
                    /\ Remaining(rule, lastTriggered[rule.id], now)
                         = Remaining(call.rule, call.now, now)

\* C33, amended: the same for the rules whose cooldownMinutes is the one they
\* triggered with; for every cached rule lastTriggered holds the time of its
\* id's latest trigger.
CooldownStateSurvivesReload ==
  /\ \A c \in Cameras : recentEvents[c] = LastN(appended[c], HistoryCapacity)
  /\ \A j \in 1..Len(rules) :
       Triggers(rules[j].id) # {}
       => LET rule == rules[j]
              call == triggerLog[Latest(rule.id)]
          IN  /\ lastTriggered[rule.id] = call.now
              /\ ( /\ Cooling(call.rule, call.now, now)
                   /\ rule.cooldownMinutes = call.rule.cooldownMinutes )
                 => /\ Cooling(rule, lastTriggered[rule.id], now)
                    /\ Remaining(rule, lastTriggered[rule.id], now)
                         = Remaining(call.rule, call.now, now)

\* After two reloads the cache holds an edited definition of a rule that
\* triggered under its earlier definition and is in its cooldown, the event
\* of the trigger being in the history.
CooldownSurvivesWitness ==
  /\ updates = 2 /\ loading = 0 /\ lastLoad = "loaded"
  /\ \E j \in 1..Len(rules) :
       /\ Triggers(rules[j].id) # {}
       /\ triggerLog[Latest(rules[j].id)].rule # rules[j]
       /\ Cooling(rules[j], lastTriggered[rules[j].id], now)
       /\ \E i \in 1..Len(recentEvents["cam1"]) :
            recentEvents["cam1"][i] = triggerLog[Latest(rules[j].id)].event

\* ----------------------------------------------------- the event queue
\* The ids of the events enqueued so far.
Enqueued == UNION { { << c, n >> : n \in 1..delivered[c] } : c \in Cameras }

\* Where the event of an id waits: its positions in the queue and in the
\* batches of the interval callbacks in progress.
QueuePlaces(id) == { i \in 1..Len(eventQueue) : eventQueue[i].id = id }

\* The interval callbacks in progress whose batch holds the event.
Holders(id) == { t \in tasks : \E i \in 1..Len(t.batch) : t.batch[i].id = id }

\* The processEvent calls that have returned for the event of an id.
Returns(id) == { f \in finished : f.event.id = id }

\* Every event enqueued is in one place: in the queue or in the batch of one
\* callback, not yet handed to processEvent unless the callback has reached
\* it, or gone from both with its one processEvent call over; nothing else is
\* queued or processed.
HandedOnce ==
  /\ \A id \in Enqueued :
       LET calls == Cardinality(Returns(id))
       IN  /\ Cardinality(QueuePlaces(id)) + Cardinality(Holders(id)) <= 1
           /\ QueuePlaces(id) # {} => calls = 0
           /\ \A t \in Holders(id) :
                \A i \in 1..Len(t.batch) :
                  t.batch[i].id = id => calls = (IF i < t.pos THEN 1 ELSE 0)
           /\ (QueuePlaces(id) = {} /\ Holders(id) = {}) => calls = 1
  /\ \A i \in 1..Len(eventQueue) : eventQueue[i].id \in Enqueued
  /\ \A t \in tasks :
       /\ t.pos \in 1..Len(t.batch)
       /\ \A i \in 1..Len(t.batch) :
            /\ t.batch[i].id \in Enqueued
            /\ \A j \in 1..Len(t.batch) : t.batch[i].id = t.batch[j].id => i = j
  /\ \A f \in finished : f.event.id \in Enqueued

\* A step that changes the queue appends the event that arrived, or is an
\* interval callback taking the oldest events, batchSize of them at most, as
\* its batch, the first of which it hands to processEvent.
QueueStep ==
  eventQueue' # eventQueue
  => \/ /\ Len(eventQueue') = Len(eventQueue) + 1
        /\ SubSeq(eventQueue', 1, Len(eventQueue)) = eventQueue
        /\ \E c \in Cameras :
             /\ delivered' = [ delivered EXCEPT ![c] = @ + 1 ]
             /\ eventQueue'[Len(eventQueue')].id = << c, delivered'[c] >>
        /\ tasks' = tasks
     \/ \E n \in 1..Min(batchSize, Len(eventQueue)) :
          /\ eventQueue' = SubSeq(eventQueue, n + 1, Len(eventQueue))
          /\ \E t \in tasks' \ tasks :
               /\ tasks' = tasks \cup { t }
               /\ t.batch = SubSeq(eventQueue, 1, n)
               /\ t.pos = 1
          /\ delivered' = delivered

\* C34: every event enqueued is handed to processEvent exactly once, the
\* queue is taken from in arrival order, and an interval callback takes at
\* most batchSize events.
EventQueueDiscipline == [] HandedOnce /\ [][QueueStep]_vars

\* An interval callback took batchSize events, leaving later arrivals in the
\* queue, and has handed some of its batch to processEvent.
EventQueueWitness ==
  \E t \in tasks :
    /\ Len(t.batch) = batchSize
    /\ t.pos > 1
    /\ eventQueue # << >>
    /\ \A i \in 1..(t.pos - 1) : Cardinality(Returns(t.batch[i].id)) = 1

\* ------------------------------------------------------- the worker stopped
\* stop() has completed: the worker was started and is no longer running.
StopCompleted == ~ isRunning /\ lastLoad # "none"

\* The processEvent calls made so far: those that have returned and the one
\* each suspended callback is in.
Entered == Cardinality(finished) + Cardinality(tasks)

\* C35: once stop() has completed no further event is passed to processEvent
\* and no rule triggers, even if a batch was in flight or events were queued.
QuiescenceAfterStop ==
  [][StopCompleted => (Entered' = Entered /\ triggerLog' = triggerLog)]_vars

\* What does hold: after stop() no callback starts a new batch and nothing is
\* enqueued; the events still queued stay where they are.
QueueRestsAfterStop ==
  [][StopCompleted => (eventQueue' = eventQueue /\ Cardinality(tasks') <= Cardinality(tasks))]_vars

\* ------------------------------------------------- InferenceWorker properties
\* No camera's queue holds more than five frames.
FrameQueueBound == \A c \in Cameras : Len(frameQueue[c]) <= FrameCapacity

\* Every frame handed to processFrame was the newest received for its camera.
NewestHanded == \A i \in 1..Len(frameHanded) : frameHanded[i].frame = frameHanded[i].received

\* A frame of camera c has been handed to processFrame, or a newer one has.
Covered(c, frame, handed) ==
  \E i \in 1..Len(handed) : handed[i].cameraId = c /\ handed[i].frame >= frame

\* A frame that leaves its queue was handed to processFrame, or a newer one
\* was, or a newer one is still queued.
NoFrameLost ==
  \A c \in Cameras : \A i \in 1..Len(frameQueue[c]) :
    LET frame == frameQueue[c][i]
    IN  \/ \E j \in 1..Len(frameQueue'[c]) : frameQueue'[c][j] >= frame
        \/ Covered(c, frame, frameHanded')

\* C36: a frame queue holds at most five frames, each pass hands on the
\* newest frame received, and a frame that arrives while processFrame is
\* awaited is not discarded before it, or a newer one, could be processed.
FrameQueueDiscipline == [] (FrameQueueBound /\ NewestHanded) /\ [][NoFrameLost]_vars

\* What does hold of the queue: its bound and the choice of the newest frame.
FrameQueueNewest == [] (FrameQueueBound /\ NewestHanded)

\* ------------------------------------------------------ CameraStream properties
\* C37: after stopCamera has completed no ffmpeg process is started for the
\* stream again, and the close of the killed process schedules no reconnect.
CameraStopIsFinal ==
  [][streamState = "stopped" =>
       (ffmpegAlive' <= ffmpegAlive /\ reconnectTimers' <= reconnectTimers)]_vars

\* What does hold: stop() leaves the stream without a process of its own, and
\* a stream whose start failed never has one.
CameraStopForgets == [][streamState' = "stopped" /\ streamState # "stopped" => ~ ffmpeg']_vars

\* Every reconnect attempt has failed: five were made since the last frame,
\* the last process has closed and nothing is scheduled.
Exhausted ==
  reconnectRun = maxReconnectAttempts /\ ffmpegAlive = 0 /\ reconnectTimers = 0

ReconnectBound ==
  /\ reconnectRun <= maxReconnectAttempts
  /\ reconnectAttempts <= maxReconnectAttempts
  /\ ffmpegAlive <= 1
  /\ Exhausted => healthStatus = "unhealthy"

ReconnectStep ==
  /\ frameCount' # frameCount => (reconnectAttempts' = 0 /\ reconnectRun' = 0)
  /\ Exhausted => (reconnectTimers' = 0 /\ ffmpegAlive' = 0)

\* C38: at most five reconnects are started without a frame in between; a
\* frame resets reconnectAttempts to 0; after five failed attempts the stream
\* is 'unhealthy' and nothing more is scheduled; one stream never has two
\* processes alive.
BoundedReconnect == [] ReconnectBound /\ [][ReconnectStep]_vars

BoundedReconnectWitness ==
  /\ Exhausted /\ healthStatus = "unhealthy" /\ frameCount > 0
  /\ reconnectAttempts = maxReconnectAttempts

\* ---------------------------------------------------- ActionExecutor properties
\* The requests taken from the queue.
Taken == { n \in 1..requested : \A i \in 1..Len(actionQueue) : actionQueue[i].id # n }

\* The requests whose executeAction call has returned.
Executed == { n \in Taken : \A r \in executing : r.id # n }

Results(n) == { i \in 1..Len(actionResults) : actionResults[i].id = n }
StoreCalls(n) == { i \in 1..Len(executionLog) : executionLog[i].result.id = n }
Stored(n) == { i \in StoreCalls(n) : executionLog[i].stored }
PublishCalls(n) == { i \in 1..Len(resultLog) : resultLog[i].result.id = n }
Published(n) == { i \in PublishCalls(n) : resultLog[i].sent }

\* C39, as stated: every request taken from the queue gets one result, one
\* execution record and one published result, an unknown type giving
\* success = false, and every request of a batch is executed.
ActionAccounting ==
  \A n \in Executed :
    /\ Cardinality(Results(n)) = 1
    /\ Cardinality(Stored(n)) = 1
    /\ Cardinality(Published(n)) = 1

\* C39, amended: every request taken from the queue is passed to
\* executeAction, which returns one result and calls storeActionExecution
\* and publishActionResult once each with that result; the record exists
\* unless the INSERT failed and the result is sent unless the publisher has
\* no client.
ActionCallAccounting ==
  /\ \A n \in Taken \ Executed :
       Results(n) = {} /\ StoreCalls(n) = {} /\ PublishCalls(n) = {}
  /\ \A n \in Executed :
       /\ Cardinality(Results(n)) = 1
       /\ Cardinality(StoreCalls(n)) = 1
       /\ Cardinality(PublishCalls(n)) = 1
       /\ \A i \in Results(n), j \in StoreCalls(n), k \in PublishCalls(n) :
            /\ executionLog[j].result = actionResults[i]
            /\ resultLog[k].result = actionResults[i]
       /\ Cardinality(Stored(n)) <= 1
       /\ Cardinality(Published(n)) <= 1
  /\ \A i \in 1..Len(actionResults) :
       /\ actionResults[i].id \in Executed
       /\ actionResults[i].message = "unknown" => ~ actionResults[i].success

\* A batch of three: one request succeeded, one failed and one had an
\* unknown type, and all three are accounted for.
ActionAccountingWitness ==
  /\ Executed = 1..MaxActionRequests
  /\ \E i, j, k \in 1..Len(actionResults) :
       /\ actionResults[i].success
       /\ actionResults[j].error
       /\ actionResults[k].message = "unknown"
       /\ actionResults[j].id < actionResults[k].id
  /\ \A i \in 1..Len(executionLog) : executionLog[i].stored
  /\ \A i \in 1..Len(resultLog) : resultLog[i].sent
====
